---- MODULE Spec2Model ----
(***************************************************************************)
(* Ask-MCP: the question protocol and the dialog lifecycle.                *)
(*                                                                         *)
(*   question_parser.py   QuestionParser.parse_xml / validate_question     *)
(*   ui_handler.py        ModernQuestionDialog, UIHandler.show_question    *)
(*   fastmcp_server.py    ask_user_question (the boundary adapter)         *)
(*                                                                         *)
(* Text is a sequence of tokens.  A token is one character, except that    *)
(* the two marker substrings "CANCELLED:" and "ERROR:" are one token each  *)
(* (str.startswith / str.replace on them then work on whole tokens), and   *)
(* OBJ is U+FFFC, the character QTextEdit.toPlainText() shows for an       *)
(* image embedded in the document.                                         *)
(***************************************************************************)
EXTENDS Integers, Sequences, FiniteSets, TLC

VARIABLES
    doc,        \* the question_xml argument of ask_user_question
    apc,        \* where ask_user_question is
    question,   \* the ParsedQuestion, once parse_xml returned it
    container,  \* ask_user_question's result_container
    response,   \* what ask_user_question returns (or raises)
    wpc,        \* where the worker thread (show_dialog) is
    ui,         \* UIHandler.show_question's locals: event loop, result_container
    dlg,        \* the ModernQuestionDialog: its fields and its two input widgets
    finished,   \* the payloads the dialog's finished signal was emitted with
    late,       \* events dispatched after event_loop.quit() was requested
    calls       \* the invocations of show_question, where calls are repeated

vars == <<doc, apc, question, container, response, wpc, ui, dlg, finished, late,
          calls>>

-----------------------------------------------------------------------------
(* Bounds of the model *)

\* longest text a user types into an input field
MaxTextLen == 2
\* most images attached to one input field
MaxImages == 2
\* most <option> entries of a document handed to the parser
MaxOptions == 2
\* most events still dispatched after event_loop.quit() was requested
MaxLateEvents == 1
\* most invocations of show_question in one run
MaxCalls == 2
\* most file references one paste or drop gesture carries
MaxRefs == 2

-----------------------------------------------------------------------------
(* Text *)

WS == " "
OBJ == "OBJ"
\* the text QMimeData.text() gives for the URL of a dropped or pasted file
FILE_URL == "file:///notes.txt"
CANCELLED == "CANCELLED:"
ERROR == "ERROR:"

\* what a user types
Alphabet == {"a", WS, CANCELLED}

\* the sequences over S of length n at most
SeqsUpTo(S, n) == UNION {[1..k -> S] : k \in 0..n}

\* what a user can have in an input field
Texts == SeqsUpTo(Alphabet, MaxTextLen)

\* str.strip() leaves nothing
IsBlank(s) == \A i \in 1..Len(s) : s[i] = WS

RECURSIVE LStrip(_)
LStrip(s) == IF s # <<>> /\ Head(s) = WS THEN LStrip(Tail(s)) ELSE s

RECURSIVE RStrip(_)
RStrip(s) ==
    IF s # <<>> /\ s[Len(s)] = WS THEN RStrip(SubSeq(s, 1, Len(s) - 1)) ELSE s

\* str.strip()
Strip(s) == RStrip(LStrip(s))

\* str.startswith(marker), the marker being one token
StartsWith(s, marker) == s # <<>> /\ Head(s) = marker

\* str.replace(marker, ""): every occurrence goes
RECURSIVE RemoveAll(_, _)
RemoveAll(s, marker) ==
    IF s = <<>> THEN <<>>
    ELSE IF Head(s) = marker THEN RemoveAll(Tail(s), marker)
    ELSE <<Head(s)>> \o RemoveAll(Tail(s), marker)

-----------------------------------------------------------------------------
(* Python values: None, a str, the {text, images} dict *)

None == [tag |-> "none"]
Str(s) == [tag |-> "str", val |-> s]
Dict(t, imgs) == [tag |-> "dict", text |-> t, images |-> imgs]

\* an optional XML attribute or element: absent, or present with a value
Absent == <<>>
Some(v) == <<v>>

-----------------------------------------------------------------------------
(* question_parser.py *)

QuestionOption(v, t) == [value |-> v, text |-> t]

\* ParsedQuestion.options is None (Absent) for a 'qa' question, Some(list) for
\* a 'choice' question
ParsedQuestion(ty, ti, co, opts) ==
    [question_type |-> ty, title |-> ti, content |-> co, options |-> opts]

Returned(v) == [ok |-> TRUE, value |-> v]
Raised(kind, msg) == [ok |-> FALSE, exc |-> kind, msg |-> msg]

RECURSIVE ParseOptionsReversed(_)
ParseOptionsReversed(entries) ==
    IF entries = <<>> THEN Returned(<<>>)
    ELSE LET e == Head(entries)
         IN  IF e.value = Absent \/ e.value[1] = <<>>
             THEN Raised("ValueError", "option without value")
             ELSE IF e.text = <<>>
             THEN Raised("ValueError", "option without text")
             ELSE LET rest == ParseOptionsReversed(Tail(entries))
                  IN  IF rest.ok
                      THEN Returned(rest.value \o <<QuestionOption(e.value[1], e.text)>>)
                      ELSE rest

\* the loop over options_elem.findall('option'): the first bad entry raises
RECURSIVE ParseOptions(_)
ParseOptions(entries) ==
    IF entries = <<>> THEN Returned(<<>>)
    ELSE LET e == Head(entries)
         IN  IF e.value = Absent \/ e.value[1] = <<>>
             THEN Raised("ValueError", "option without value")
             ELSE IF e.text = <<>>
             THEN Raised("ValueError", "option without text")
             ELSE LET rest == ParseOptions(Tail(entries))
                  IN  IF rest.ok
                      THEN Returned(<<QuestionOption(e.value[1], e.text)>> \o rest.value)
                      ELSE rest

ParseXmlSkipsOptionCount(d) ==
    IF ~d.wellFormed THEN Raised("ValueError", "XML parse error")
    ELSE IF d.root # "question" THEN Raised("ValueError", "root must be question")
    ELSE IF d.type = Absent \/ d.type[1] = "" THEN Raised("ValueError", "type missing")
    ELSE IF d.type[1] \notin {"qa", "choice"} THEN Raised("ValueError", "type unknown")
    ELSE IF d.title = Absent THEN Raised("ValueError", "title missing")
    ELSE IF d.content = Absent THEN Raised("ValueError", "content missing")
    ELSE IF d.type[1] = "choice"
    THEN IF d.options = Absent THEN Raised("ValueError", "options missing")
         ELSE LET opts == ParseOptions(d.options[1])
              IN  IF ~opts.ok THEN opts
                  ELSE Returned(ParsedQuestion("choice", d.title[1], d.content[1],
                                               Some(opts.value)))
    ELSE Returned(ParsedQuestion("qa", d.title[1], d.content[1], Absent))

\* QuestionParser.parse_xml; every exception leaves it as a ValueError
ParseXml(d) ==
    IF ~d.wellFormed THEN Raised("ValueError", "XML parse error")
    ELSE IF d.root # "question" THEN Raised("ValueError", "root must be question")
    ELSE IF d.type = Absent \/ d.type[1] = "" THEN Raised("ValueError", "type missing")
    ELSE IF d.type[1] \notin {"qa", "choice"} THEN Raised("ValueError", "type unknown")
    ELSE IF d.title = Absent THEN Raised("ValueError", "title missing")
    ELSE IF d.content = Absent THEN Raised("ValueError", "content missing")
    ELSE IF d.type[1] = "choice"
    THEN IF d.options = Absent THEN Raised("ValueError", "options missing")
         ELSE LET opts == ParseOptions(d.options[1])
              IN  IF ~opts.ok THEN opts
                  ELSE IF opts.value = <<>> THEN Raised("ValueError", "no option")
                  ELSE Returned(ParsedQuestion("choice", d.title[1], d.content[1],
                                               Some(opts.value)))
    ELSE Returned(ParsedQuestion("qa", d.title[1], d.content[1], Absent))

\* "not question.options": None or an empty list
NoOptions(q) == q.options = Absent \/ q.options[1] = <<>>

ValidateQuestionIgnoresValue(q) ==
    /\ ~IsBlank(q.title)
    /\ ~IsBlank(q.content)
    /\ q.question_type = "choice" =>
          /\ ~NoOptions(q)
          /\ \A i \in 1..Len(q.options[1]) : ~IsBlank(q.options[1][i].text)

ValidateQuestionIgnoresContent(q) ==
    /\ ~IsBlank(q.title)
    /\ q.question_type = "choice" =>
          /\ ~NoOptions(q)
          /\ \A i \in 1..Len(q.options[1]) :
                ~IsBlank(q.options[1][i].value) /\ ~IsBlank(q.options[1][i].text)

ValidateQuestionWantsOptions(q) ==
    /\ ~IsBlank(q.title)
    /\ ~IsBlank(q.content)
    /\ ~NoOptions(q)
    /\ \A i \in 1..Len(q.options[1]) :
          ~IsBlank(q.options[1][i].value) /\ ~IsBlank(q.options[1][i].text)

\* QuestionParser.validate_question
ValidateQuestion(q) ==
    /\ ~IsBlank(q.title)
    /\ ~IsBlank(q.content)
    /\ q.question_type = "choice" =>
          /\ ~NoOptions(q)
          /\ \A i \in 1..Len(q.options[1]) :
                ~IsBlank(q.options[1][i].value) /\ ~IsBlank(q.options[1][i].text)

-----------------------------------------------------------------------------
(* The documents ask_user_question is called with.  A document is what     *)
(* ET.fromstring makes of the text: whether it is well-formed, the root    *)
(* tag, the type attribute, the title and content children (an empty       *)
(* element reads as ""), and the options container with the value          *)
(* attribute and the text of each option entry.                            *)

Document(wf, root, ty, ti, co, opts) ==
    [wellFormed |-> wf, root |-> root, type |-> ty, title |-> ti, content |-> co,
     options |-> opts]

OptionEntry(v, t) == [value |-> v, text |-> t]

MalformedDoc == Document(FALSE, "", Absent, Absent, Absent, Absent)

OptA == OptionEntry(Some(<<"a">>), <<"A">>)
\* an option whose value starts like the text a failure is returned as
OptB == OptionEntry(Some(<<ERROR, "b">>), <<"B">>)

QaDoc == Document(TRUE, "question", Some("qa"), Some(<<"T">>), Some(<<"C">>), Absent)
ChoiceDoc ==
    Document(TRUE, "question", Some("choice"), Some(<<"T">>), Some(<<"C">>),
             Some(<<OptA, OptB>>))
NoContentDoc ==
    Document(TRUE, "question", Some("qa"), Some(<<"T">>), Absent, Absent)
BlankTitleDoc ==
    Document(TRUE, "question", Some("qa"), Some(<<WS>>), Some(<<"C">>), Absent)
EmptyValueDoc ==
    Document(TRUE, "question", Some("choice"), Some(<<"T">>), Some(<<"C">>),
             Some(<<OptA, OptionEntry(Some(<<>>), <<"B">>)>>))

\* two options that carry the same value under different labels
SameValueDoc ==
    Document(TRUE, "question", Some("choice"), Some(<<"T">>), Some(<<"C">>),
             Some(<<OptA, OptionEntry(Some(<<"a">>), <<"B">>)>>))

\* the calls the dialog lifecycle is explored for
Docs == {QaDoc, ChoiceDoc, SameValueDoc, MalformedDoc, NoContentDoc,
         BlankTitleDoc, EmptyValueDoc}

\* the documents the parser is explored for
FieldTexts == {<<>>, <<WS>>, <<"T">>}
OptionEntries ==
    {OptionEntry(v, t) : v \in {Absent, Some(<<>>), Some(<<WS>>), Some(<<"a">>)},
                         t \in {<<>>, <<WS>>, <<"A">>}}
OptionalFieldTexts == {Absent} \cup {Some(t) : t \in FieldTexts}
ParserDocs ==
    {MalformedDoc, Document(TRUE, "questions", Some("qa"), Some(<<"T">>), Some(<<"C">>),
                            Absent)}
    \cup {Document(TRUE, "question", ty, ti, co, opts) :
             ty \in {Absent, Some(""), Some("qa"), Some("QA")},
             ti \in OptionalFieldTexts, co \in OptionalFieldTexts,
             opts \in {Absent, Some(<<OptA>>)}}
    \cup {Document(TRUE, "question", Some("choice"), ti, co, opts) :
             ti \in OptionalFieldTexts, co \in OptionalFieldTexts,
             opts \in {Absent} \cup
                      {Some(es) : es \in SeqsUpTo(OptionEntries, MaxOptions)}}

-----------------------------------------------------------------------------
(* ui_handler.py: the input widgets *)

\* the MCP image records the widgets append: a pasted bitmap is saved as PNG,
\* a dropped file keeps the mime type of its name
PngImage == [type |-> "image", data |-> <<"i", "V">>, mimeType |-> "image/png"]
JpegImage == [type |-> "image", data |-> <<"/", "9", "j">>, mimeType |-> "image/jpeg"]
Images == {PngImage, JpegImage}

\* ImageSupportedTextEdit / AutoResizeTextEdit: the plain text, self.images,
\* and whether the widget is enabled
Widget(t, imgs, en) == [text |-> t, images |-> imgs, enabled |-> en]

GetContentAlwaysStructured(w) == Dict(w.text, w.images)

\* get_content_with_images
GetContentWithImages(w) ==
    IF w.images = <<>> THEN Str(w.text) ELSE Dict(w.text, w.images)

\* insert_image / insert_image_from_file once the image is accepted: the record
\* is appended to self.images and the image is inserted into the document,
\* where toPlainText() reads it as U+FFFC
InsertImage(w, img) ==
    [w EXCEPT !.images = Append(@, img), !.text = Append(@, OBJ)]

\* the size above which insert_image_from_file skips a file, in bytes
MaxImageFileSize == 10 * 1024 * 1024

\* the image files a paste or drop refers to: whether the path exists, the
\* size os.path.getsize gives, whether QPixmap loads it, and the record its
\* bytes and its name make
ImageFile(ex, sz, ld, img) == [exists |-> ex, size |-> sz, loadable |-> ld, image |-> img]
ImageFiles ==
    {ImageFile(FALSE, 0, FALSE, JpegImage)}
    \cup {ImageFile(TRUE, sz, ld, JpegImage) :
             sz \in {MaxImageFileSize - 1, MaxImageFileSize, MaxImageFileSize + 1},
             ld \in BOOLEAN}

InsertImageFromFileBelowLimit(w, f) ==
    IF ~f.exists THEN w
    ELSE IF f.size >= MaxImageFileSize THEN w
    ELSE IF ~f.loadable THEN w
    ELSE InsertImage(w, f.image)

\* insert_image_from_file: a missing, oversized or unloadable file is skipped
\* without a word to the user (such a file is not empty, so its data is not)
InsertImageFromFile(w, f) ==
    IF ~f.exists THEN w
    ELSE IF f.size > MaxImageFileSize THEN w
    ELSE IF ~f.loadable THEN w
    ELSE InsertImage(w, f.image)

\* insertFromMimeData / dropEvent for a file that is no image: no branch of the
\* override takes it, and QTextEdit's own insertFromMimeData inserts the text
\* of the data, which for a file is its URL
InsertNonImageFile(w) == [w EXCEPT !.text = Append(@, FILE_URL)]

\* a local file reference of a paste or drop: whether is_image_file takes its
\* name for an image (mimetypes.guess_type), and the file it names
FileRef(named, f) == [named_image |-> named, file |-> f]

\* the files the references of a gesture name: a missing one, an oversized
\* one, one QPixmap does not load, and two that are accepted
GestureFiles ==
    {ImageFile(FALSE, 0, FALSE, JpegImage),
     ImageFile(TRUE, MaxImageFileSize + 1, TRUE, JpegImage),
     ImageFile(TRUE, MaxImageFileSize, FALSE, JpegImage),
     ImageFile(TRUE, MaxImageFileSize, TRUE, JpegImage),
     ImageFile(TRUE, MaxImageFileSize - 1, TRUE, PngImage)}

\* the references a gesture may carry: image files, and a file that is no image
FileRefs ==
    {FileRef(TRUE, f) : f \in GestureFiles}
    \cup {FileRef(FALSE, ImageFile(TRUE, 1, FALSE, JpegImage))}

\* what one gesture carries: one reference at least
RefLists == SeqsUpTo(FileRefs, MaxRefs) \ {<<>>}

RECURSIVE InsertFromUrlsSkipsFailed(_, _)
InsertFromUrlsSkipsFailed(w, refs) ==
    IF refs = <<>> THEN w
    ELSE IF Head(refs).named_image
                /\ InsertImageFromFile(w, Head(refs).file) # w
    THEN InsertImageFromFile(w, Head(refs).file)
    ELSE InsertFromUrlsSkipsFailed(w, Tail(refs))

\* the loop over source.urls() in insertFromMimeData and dropEvent: the first
\* reference is_image_file accepts goes to insert_image_from_file, and the
\* return (or break) that follows ends the loop whatever that call did; with
\* no such reference the data goes to QTextEdit, as for InsertNonImageFile
RECURSIVE InsertFromUrls(_, _)
InsertFromUrls(w, refs) ==
    IF refs = <<>> THEN InsertNonImageFile(w)
    ELSE IF Head(refs).named_image THEN InsertImageFromFile(w, Head(refs).file)
    ELSE InsertFromUrls(w, Tail(refs))

-----------------------------------------------------------------------------
(* ui_handler.py: ModernQuestionDialog *)

BUTTON_REASON == <<"[BUTTON]">>
ESC_REASON == <<"[ESC]">>
CLOSE_REASON == <<"[CLOSE]">>

\* the options of the parsed question, <<>> for a 'qa' question
Options(q) == IF q.options = Absent THEN <<>> ELSE q.options[1]

\* the id of the "other" radio button: len(self.question.options)
CustomId(q) == Len(Options(q))

\* no dialog exists
NoDialog ==
    [result |-> None, is_completed |-> FALSE, cancel_reason |-> None,
     text_input |-> Widget(<<>>, <<>>, FALSE), checked |-> -1,
     custom_input |-> Widget(<<>>, <<>>, FALSE),
     error_visible |-> FALSE, visible |-> FALSE]

NewDialogNothingChecked(q) ==
    [result |-> None, is_completed |-> FALSE, cancel_reason |-> None,
     text_input |-> Widget(<<>>, <<>>, q.question_type = "qa"),
     checked |-> -1,
     custom_input |-> Widget(<<>>, <<>>, FALSE),
     error_visible |-> FALSE, visible |-> FALSE]

\* __init__ and init_ui: create_text_input for 'qa'; create_choice_input for
\* 'choice', which checks the first radio and disables the custom field
NewDialog(q) ==
    [result |-> None, is_completed |-> FALSE, cancel_reason |-> None,
     text_input |-> Widget(<<>>, <<>>, q.question_type = "qa"),
     checked |-> IF q.question_type = "choice" THEN 0 ELSE -1,
     custom_input |-> Widget(<<>>, <<>>, FALSE),
     error_visible |-> FALSE, visible |-> FALSE]

\* what a handler leaves: the dialog, and the payloads it emitted finished with
Handled(d, emits) == [dlg |-> d, emits |-> emits]

CloseEventUnguarded(d) ==
    Handled([d EXCEPT !.cancel_reason = Str(CLOSE_REASON), !.is_completed = TRUE,
                      !.visible = FALSE],
            IF d.result = None THEN <<None>> ELSE <<>>)

\* closeEvent, and the hide that follows the accepted event
CloseEvent(d) ==
    IF ~d.is_completed
    THEN Handled([d EXCEPT !.cancel_reason = Str(CLOSE_REASON), !.is_completed = TRUE,
                           !.visible = FALSE],
                 IF d.result = None THEN <<None>> ELSE <<>>)
    ELSE Handled([d EXCEPT !.visible = FALSE], <<>>)

\* self.finished.emit(payload); self.close()
EmitAndClose(d, payload) ==
    LET closed == CloseEvent(d)
    IN  Handled(closed.dlg, <<payload>> \o closed.emits)

ShowErrorClearsField(d) ==
    Handled([d EXCEPT !.error_visible = TRUE, !.text_input.text = <<>>,
                      !.custom_input.text = <<>>], <<>>)

\* show_error
ShowError(d) == Handled([d EXCEPT !.error_visible = TRUE], <<>>)

\* the check submit_answer makes of a field's content
HasContent(content) ==
    IF content.tag = "dict"
    THEN ~(IsBlank(content.text) /\ content.images = <<>>)
    ELSE ~IsBlank(content.val)

SubmitAnswerAcceptsBlank(q, d) ==
    LET content == IF q.question_type = "qa"
                   THEN GetContentWithImages(d.text_input)
                   ELSE IF d.checked = CustomId(q)
                   THEN GetContentWithImages(d.custom_input)
                   ELSE Str(Options(q)[d.checked + 1].value)
    IN  EmitAndClose([d EXCEPT !.result = content, !.is_completed = TRUE], content)

SubmitAnswerTrimsText(q, d) ==
    IF q.question_type = "qa"
    THEN LET content == GetContentWithImages(d.text_input)
         IN  IF ~HasContent(content) THEN ShowError(d)
             ELSE EmitAndClose([d EXCEPT !.result = Str(Strip(d.text_input.text)),
                                         !.is_completed = TRUE],
                               Str(Strip(d.text_input.text)))
    ELSE IF d.checked = -1 THEN ShowError(d)
    ELSE IF d.checked = CustomId(q)
    THEN LET content == GetContentWithImages(d.custom_input)
         IN  IF ~HasContent(content) THEN ShowError(d)
             ELSE EmitAndClose([d EXCEPT !.result = content, !.is_completed = TRUE],
                               content)
    ELSE LET value == Str(Options(q)[d.checked + 1].value)
         IN  EmitAndClose([d EXCEPT !.result = value, !.is_completed = TRUE], value)

SubmitAnswerCustomStructured(q, d) ==
    IF q.question_type = "qa"
    THEN LET content == GetContentWithImages(d.text_input)
         IN  IF ~HasContent(content) THEN ShowError(d)
             ELSE EmitAndClose([d EXCEPT !.result = content, !.is_completed = TRUE],
                               content)
    ELSE IF d.checked = -1 THEN ShowError(d)
    ELSE IF d.checked = CustomId(q)
    THEN LET content == Dict(d.custom_input.text, d.custom_input.images)
         IN  IF ~HasContent(content) THEN ShowError(d)
             ELSE EmitAndClose([d EXCEPT !.result = content, !.is_completed = TRUE],
                               content)
    ELSE LET value == Str(Options(q)[d.checked + 1].value)
         IN  EmitAndClose([d EXCEPT !.result = value, !.is_completed = TRUE], value)

\* submit_answer
SubmitAnswer(q, d) ==
    IF q.question_type = "qa"
    THEN LET content == GetContentWithImages(d.text_input)
         IN  IF ~HasContent(content) THEN ShowError(d)
             ELSE EmitAndClose([d EXCEPT !.result = content, !.is_completed = TRUE],
                               content)
    ELSE IF d.checked = -1 THEN ShowError(d)
    ELSE IF d.checked = CustomId(q)
    THEN LET content == GetContentWithImages(d.custom_input)
         IN  IF ~HasContent(content) THEN ShowError(d)
             ELSE EmitAndClose([d EXCEPT !.result = content, !.is_completed = TRUE],
                               content)
    ELSE LET value == Str(Options(q)[d.checked + 1].value)
         IN  EmitAndClose([d EXCEPT !.result = value, !.is_completed = TRUE], value)

\* the body shared by cancel_dialog and the ESC branch of keyPressEvent
Cancel(d, reason) ==
    EmitAndClose([d EXCEPT !.cancel_reason = Str(reason), !.is_completed = TRUE,
                           !.result = None],
                 None)

CancelDialogEscReason(d) == Cancel(d, ESC_REASON)

\* cancel_dialog
CancelDialog(d) == Cancel(d, BUTTON_REASON)

\* keyPressEvent, Qt.Key_Escape
EscapeKey(d) == Cancel(d, ESC_REASON)

\* on_custom_changed: a non-blank custom text checks the "other" radio with its
\* toggled signal disconnected, so on_custom_toggled does not run
OnCustomChanged(q, d) ==
    IF ~IsBlank(d.custom_input.text) /\ d.checked # CustomId(q)
    THEN [d EXCEPT !.checked = CustomId(q)]
    ELSE d

OnCustomToggledKeepsEnabled(d, checked) ==
    IF checked
    THEN [d EXCEPT !.custom_input.enabled = TRUE]
    ELSE [d EXCEPT !.custom_input.text = <<>>]

\* on_custom_toggled: enables the field when the radio gets checked; clears
\* the field's document (not self.images) when it gets unchecked
OnCustomToggled(d, checked) ==
    IF checked
    THEN [d EXCEPT !.custom_input.enabled = TRUE]
    ELSE [d EXCEPT !.custom_input.enabled = FALSE, !.custom_input.text = <<>>]

ClickRadioToggles(q, d, id) ==
    IF d.checked = id
    THEN IF id = CustomId(q) THEN OnCustomToggled([d EXCEPT !.checked = -1], FALSE)
         ELSE [d EXCEPT !.checked = -1]
    ELSE LET moved == [d EXCEPT !.checked = id]
         IN  IF id = CustomId(q) THEN OnCustomToggled(moved, TRUE)
             ELSE IF d.checked = CustomId(q) THEN OnCustomToggled(moved, FALSE)
             ELSE moved

\* a click on radio button id: the exclusive group unchecks the other button,
\* and the "other" radio's toggled signal runs on_custom_toggled
ClickRadio(q, d, id) ==
    IF d.checked = id THEN d
    ELSE LET moved == [d EXCEPT !.checked = id]
         IN  IF id = CustomId(q) THEN OnCustomToggled(moved, TRUE)
             ELSE IF d.checked = CustomId(q) THEN OnCustomToggled(moved, FALSE)
             ELSE moved

-----------------------------------------------------------------------------
(* ui_handler.py: UIHandler.show_question *)

\* show_question's locals: where it is, its QEventLoop, and result_container
NoCall == [pc |-> "none", loop |-> "none", result |-> None, completed |-> FALSE,
           ret |-> Returned(None)]

\* a str or dict is truthy unless it is the empty str
Truthy(v) == v # None /\ (v.tag = "str" => v.val # <<>>)

ShowQuestionResultAsClosed(completed, result, d) ==
    IF ~completed THEN Str(<<CANCELLED>> \o CLOSE_REASON)
    ELSE IF result = None
    THEN IF Truthy(d.cancel_reason)
         THEN Str(<<CANCELLED>> \o d.cancel_reason.val)
         ELSE Str(<<ERROR, "[HANDLER]no reason">>)
    ELSE result

\* what show_question returns once event_loop.exec_() has returned
ShowQuestionResult(completed, result, d) ==
    IF ~completed THEN Str(<<CANCELLED, "[HANDLER]incomplete">>)
    ELSE IF result = None
    THEN IF Truthy(d.cancel_reason)
         THEN Str(<<CANCELLED>> \o d.cancel_reason.val)
         ELSE Str(<<ERROR, "[HANDLER]no reason">>)
    ELSE result

OnFinishedQuitLost(u, emits) ==
    IF emits = <<>> THEN u
    ELSE [u EXCEPT !.result = emits[Len(emits)], !.completed = TRUE, !.loop = "lost"]

\* on_finished, once for every payload a handler emitted
OnFinished(u, emits) ==
    IF emits = <<>> THEN u
    ELSE [u EXCEPT !.result = emits[Len(emits)], !.completed = TRUE, !.loop = "quit"]

-----------------------------------------------------------------------------
(* fastmcp_server.py: ask_user_question *)

NoContainer == [tag |-> "unset"]

\* result_container = {"answer": None, "error": None, "cancelled": False}
FreshContainer ==
    [answer |-> None, error |-> None, cancelled |-> FALSE, cancel_reason |-> Absent]

ShowDialogDropsReason(c, outcome) ==
    IF ~outcome.ok THEN [c EXCEPT !.error = Str(<<"[THREAD]exception">>)]
    ELSE LET answer == outcome.value
         IN  IF answer = None THEN [c EXCEPT !.error = Str(<<"[THREAD]None">>)]
             ELSE IF answer.tag = "str" /\ StartsWith(answer.val, CANCELLED)
             THEN [c EXCEPT !.cancelled = TRUE]
             ELSE IF answer.tag = "str" /\ StartsWith(answer.val, ERROR)
             THEN [c EXCEPT !.error = Str(RemoveAll(answer.val, ERROR))]
             ELSE [c EXCEPT !.answer = answer]

\* show_dialog, the worker thread's target: what it stores for show_question's
\* outcome
ShowDialog(c, outcome) ==
    IF ~outcome.ok THEN [c EXCEPT !.error = Str(<<"[THREAD]exception">>)]
    ELSE LET answer == outcome.value
         IN  IF answer = None THEN [c EXCEPT !.error = Str(<<"[THREAD]None">>)]
             ELSE IF answer.tag = "str" /\ StartsWith(answer.val, CANCELLED)
             THEN [c EXCEPT !.cancelled = TRUE,
                            !.cancel_reason = Some(RemoveAll(answer.val, CANCELLED))]
             ELSE IF answer.tag = "str" /\ StartsWith(answer.val, ERROR)
             THEN [c EXCEPT !.error = Str(RemoveAll(answer.val, ERROR))]
             ELSE [c EXCEPT !.answer = answer]

\* next(opt for opt in question.options if opt.value == user_answer): the
\* label of the first option with that value, if any
RECURSIVE SelectedOption(_, _)
SelectedOption(opts, v) ==
    IF opts = <<>> THEN Absent
    ELSE IF Head(opts).value = v THEN Some(Head(opts).text)
    ELSE SelectedOption(Tail(opts), v)

\* the two lines the response gives image i
ImageDescriptor(i, image) ==
    [index |-> i, mimeType |-> image.mimeType, size |-> Len(image.data),
     payload |-> image]

EncodeAnswerKeepsBlankText(q, user_answer) ==
    IF user_answer.tag = "dict"
    THEN [kind |-> "rich_answer",
          text |-> IF user_answer.text = <<>> THEN Absent
                   ELSE Some(Strip(user_answer.text)),
          images |-> [i \in 1..Len(user_answer.images) |->
                         ImageDescriptor(i, user_answer.images[i])],
          custom |-> q.question_type = "choice"]
    ELSE [kind |-> "answer", text |-> user_answer.val,
          label |-> IF q.question_type = "choice" /\ q.options # Absent
                                                  /\ q.options[1] # <<>>
                    THEN SelectedOption(q.options[1], user_answer.val)
                    ELSE Absent]

\* the response for a stored answer
EncodeAnswer(q, user_answer) ==
    IF user_answer.tag = "dict"
    THEN [kind |-> "rich_answer",
          text |-> IF IsBlank(user_answer.text) THEN Absent
                   ELSE Some(Strip(user_answer.text)),
          images |-> [i \in 1..Len(user_answer.images) |->
                         ImageDescriptor(i, user_answer.images[i])],
          custom |-> q.question_type = "choice"]
    ELSE [kind |-> "answer", text |-> user_answer.val,
          label |-> IF q.question_type = "choice" /\ ~NoOptions(q)
                    THEN SelectedOption(q.options[1], user_answer.val)
                    ELSE Absent]

\* the response built from result_container after dialog_thread.join()
Respond(q, c) ==
    IF Truthy(c.error) THEN [kind |-> "dialog_error", detail |-> c.error.val]
    ELSE IF c.cancelled
    THEN [kind |-> "cancelled",
          reason |-> IF c.cancel_reason = Absent THEN <<"[UNKNOWN]">>
                     ELSE c.cancel_reason[1]]
    ELSE IF c.answer = None THEN [kind |-> "program_error"]
    ELSE EncodeAnswer(q, c.answer)

\* the response for a document parse_xml raised on
ParseRejected(d, raised) == [kind |-> "parse_rejected", msg |-> raised.msg, echo |-> d]

\* the response for a question validate_question returned False for
ValidationRejected(q) ==
    [kind |-> "validation_rejected", type |-> q.question_type, title |-> q.title,
     content |-> q.content, count |-> Len(Options(q))]

AdapterCatchReraises(raised) == [kind |-> "raised", exc |-> raised.exc]

\* the except clauses that close ask_user_question's body
AdapterCatch(raised) ==
    IF raised.exc = "ValueError" THEN [kind |-> "param_error", msg |-> raised.msg]
    ELSE [kind |-> "unexpected_error", msg |-> raised.msg]

NoResponse == [kind |-> "none"]

\* the category a caller reads off a response
Category(r) ==
    CASE r.kind \in {"answer", "rich_answer"} -> "answered"
      [] r.kind = "cancelled" -> "cancelled"
      [] r.kind \in {"dialog_error", "program_error", "param_error",
                     "unexpected_error"} -> "error"
      [] r.kind \in {"parse_rejected", "validation_rejected"} -> "rejected"
      [] r.kind = "raised" -> "raised"
      [] OTHER -> "none"

JoinReturnsAtOnce == TRUE

\* dialog_thread.join() returns once the worker thread has ended
JoinReturns == wpc = "done"

-----------------------------------------------------------------------------
(* The state machine *)

Init ==
    /\ doc \in Docs
    /\ apc = "called"
    /\ question = ParsedQuestion("", <<>>, <<>>, Absent)
    /\ container = NoContainer
    /\ response = NoResponse
    /\ wpc = "idle"
    /\ ui = NoCall
    /\ dlg = NoDialog
    /\ finished = <<>>
    /\ late = 0
    /\ calls = <<>>

workerVars == <<wpc, ui, dlg, finished, late>>
adapterVars == <<doc, apc, question, container, response>>

\* question = question_parser.parse_xml(question_xml), and the except around it
AdapterParse ==
    /\ apc = "called"
    /\ LET parsed == ParseXml(doc)
       IN  IF parsed.ok
           THEN /\ question' = parsed.value
                /\ apc' = "parsed"
                /\ UNCHANGED response
           ELSE /\ response' = ParseRejected(doc, parsed)
                /\ apc' = "returned"
                /\ UNCHANGED question
    /\ UNCHANGED <<doc, container>>
    /\ UNCHANGED workerVars
    /\ UNCHANGED calls

AdapterValidateSkipped ==
    /\ apc = "parsed"
    /\ apc' = "validated"
    /\ UNCHANGED <<doc, question, container, response>>
    /\ UNCHANGED workerVars
    /\ UNCHANGED calls

\* if not question_parser.validate_question(question): return ...
AdapterValidate ==
    /\ apc = "parsed"
    /\ IF ValidateQuestion(question)
       THEN apc' = "validated" /\ UNCHANGED response
       ELSE apc' = "returned" /\ response' = ValidationRejected(question)
    /\ UNCHANGED <<doc, question, container>>
    /\ UNCHANGED workerVars
    /\ UNCHANGED calls

\* result_container = {...}; dialog_thread.start(), which starts the worker or
\* raises RuntimeError when no thread can be started
AdapterStartThread ==
    /\ apc = "validated"
    /\ container' = FreshContainer
    /\ \/ /\ wpc' = "running"
          /\ ui' = [NoCall EXCEPT !.pc = "called"]
          /\ apc' = "joining"
          /\ UNCHANGED response
       \/ /\ response' = AdapterCatch(Raised("RuntimeError", "can't start new thread"))
          /\ apc' = "returned"
          /\ UNCHANGED <<wpc, ui>>
    /\ UNCHANGED <<doc, question, dlg, finished, late>>
    /\ UNCHANGED calls

\* dialog_thread.join() returns, and the rest of ask_user_question reads
\* result_container and builds the response
AdapterJoin ==
    /\ apc = "joining"
    /\ JoinReturns
    /\ response' = Respond(question, container)
    /\ apc' = "returned"
    /\ UNCHANGED <<doc, question, container>>
    /\ UNCHANGED workerVars
    /\ UNCHANGED calls

\* show_question up to event_loop.exec_().  Either the set-up before the try
\* raises and the exception reaches show_dialog, or the dialog's construction
\* raises inside the try and show_question returns the "ERROR:" text (the
\* worker thread then stores the outcome and ends), or the dialog is shown and
\* the local event loop runs
ShowQuestionOpen ==
    /\ wpc = "running"
    /\ ui.pc = "called"
    /\ \/ \E outcome \in {Raised("RuntimeError", "QApplication"),
                          Returned(Str(<<ERROR, "[EXCEPTION]">>))} :
             /\ ui' = [ui EXCEPT !.pc = "returned", !.ret = outcome]
             /\ container' = ShowDialog(container, outcome)
             /\ wpc' = "done"
             /\ UNCHANGED dlg
       \/ /\ ui' = [ui EXCEPT !.pc = "exec", !.loop = "running"]
          /\ dlg' = [NewDialog(question) EXCEPT !.visible = TRUE]
          /\ UNCHANGED <<container, wpc>>
    /\ UNCHANGED <<doc, apc, question, response, finished, late>>
    /\ UNCHANGED calls

\* the local event loop dispatches events while it runs
Awaiting ==
    /\ wpc = "running"
    /\ ui.pc = "exec"
    /\ ui.loop = "running"

\* once quit() was requested, exec_() still dispatches the events that were
\* queued in the pass it is in: of those, the ones that reach submit_answer,
\* cancel_dialog, keyPressEvent or closeEvent
Dispatching ==
    \/ Awaiting
    \/ /\ wpc = "running"
       /\ ui.pc = "exec"
       /\ ui.loop = "quit"
       /\ late < MaxLateEvents

\* an event is dispatched to a handler that leaves h
Dispatch(h) ==
    /\ Dispatching
    /\ late' = IF ui.loop = "quit" THEN late + 1 ELSE late
    /\ dlg' = h.dlg
    /\ finished' = finished \o h.emits
    /\ ui' = OnFinished(ui, h.emits)
    /\ UNCHANGED wpc
    /\ UNCHANGED adapterVars
    /\ UNCHANGED calls

\* the user edits the text of the QA field
TypeText ==
    /\ Awaiting
    /\ question.question_type = "qa"
    /\ \E t \in Texts :
          Dispatch(Handled([dlg EXCEPT !.text_input.text = t], <<>>))

\* an image is pasted or dropped into the QA field and accepted
AttachImage ==
    /\ Awaiting
    /\ question.question_type = "qa"
    /\ Len(dlg.text_input.images) < MaxImages
    /\ \E img \in Images :
          Dispatch(Handled([dlg EXCEPT !.text_input = InsertImage(@, img)], <<>>))

\* the reference to image file f is pasted or dropped into the QA field
DropImageFileOf(f) ==
    /\ Awaiting
    /\ question.question_type = "qa"
    /\ Len(dlg.text_input.images) < MaxImages
    /\ Dispatch(Handled([dlg EXCEPT !.text_input = InsertImageFromFile(@, f)], <<>>))

\* a reference to an image file is pasted or dropped into the QA field
DropImageFile == \E f \in ImageFiles : DropImageFileOf(f)

\* a file that is no image is pasted or dropped into the QA field
DropFile ==
    /\ Awaiting
    /\ question.question_type = "qa"
    /\ Len(dlg.text_input.text) < MaxTextLen
    /\ Dispatch(Handled([dlg EXCEPT !.text_input = InsertNonImageFile(@)], <<>>))

\* the user clicks a radio button
SelectOption ==
    /\ Awaiting
    /\ question.question_type = "choice"
    /\ \E id \in 0..CustomId(question) :
          Dispatch(Handled(ClickRadio(question, dlg, id), <<>>))

\* the keys for text t typed at the custom field: QWidget.event drops the key
\* events of a disabled widget
TypeCustomText(t) ==
    /\ Awaiting
    /\ question.question_type = "choice"
    /\ Dispatch(Handled(IF dlg.custom_input.enabled
                        THEN OnCustomChanged(question,
                                             [dlg EXCEPT !.custom_input.text = t])
                        ELSE dlg,
                        <<>>))

\* the user types into the custom field
TypeCustom == \E t \in Texts : TypeCustomText(t)

\* an image is pasted or dropped into the custom field, which takes it when it
\* is enabled
AttachCustomImage ==
    /\ Awaiting
    /\ question.question_type = "choice"
    /\ dlg.custom_input.enabled
    /\ Len(dlg.custom_input.images) < MaxImages
    /\ \E img \in Images :
          Dispatch(Handled(OnCustomChanged(question,
                                           [dlg EXCEPT !.custom_input =
                                                           InsertImage(@, img)]),
                           <<>>))

\* the reference to image file f is pasted or dropped into the custom field,
\* which takes it when it is enabled; textChanged fires when an image went in
DropCustomImageFileOf(f) ==
    /\ Awaiting
    /\ question.question_type = "choice"
    /\ dlg.custom_input.enabled
    /\ Len(dlg.custom_input.images) < MaxImages
    /\ LET field == InsertImageFromFile(dlg.custom_input, f)
       IN  Dispatch(Handled(IF field = dlg.custom_input THEN dlg
                            ELSE OnCustomChanged(question,
                                                 [dlg EXCEPT !.custom_input = field]),
                            <<>>))

\* a reference to an image file is pasted or dropped into the custom field
DropCustomImageFile == \E f \in ImageFiles : DropCustomImageFileOf(f)

\* a file that is no image is pasted or dropped into the custom field, which
\* takes it when it is enabled
DropCustomFile ==
    /\ Awaiting
    /\ question.question_type = "choice"
    /\ dlg.custom_input.enabled
    /\ Len(dlg.custom_input.text) < MaxTextLen
    /\ Dispatch(Handled(OnCustomChanged(question,
                                        [dlg EXCEPT !.custom_input =
                                                        InsertNonImageFile(@)]),
                        <<>>))

\* event_loop.exec_() is made to return by something else than on_finished
\* (the application object is told to quit): finished has not fired
LoopInterrupted ==
    /\ Awaiting
    /\ ui' = [ui EXCEPT !.loop = "quit"]
    /\ UNCHANGED <<dlg, finished, late, wpc>>
    /\ UNCHANGED adapterVars
    /\ UNCHANGED calls

\* the OK button, or Ctrl+Return
Submit == Dispatch(SubmitAnswer(question, dlg))

\* the cancel button
CancelClick == Dispatch(CancelDialog(dlg))

\* the ESC key
EscPress == Dispatch(EscapeKey(dlg))

\* the window is closed by the window system
CloseWindow == Dispatch(CloseEvent(dlg))

ErrorTimerCancels ==
    /\ Awaiting
    /\ dlg.error_visible
    /\ Dispatch(Cancel([dlg EXCEPT !.error_visible = FALSE], <<"[TIMEOUT]">>))

\* the single-shot timer of show_error hides the error label
ErrorTimer ==
    /\ Awaiting
    /\ dlg.error_visible
    /\ Dispatch(Handled([dlg EXCEPT !.error_visible = FALSE], <<>>))

\* event_loop.exec_() returns and show_question returns what its container
\* holds; show_dialog stores the outcome and the worker thread ends
WorkerFinish ==
    /\ wpc = "running"
    /\ ui.pc = "exec"
    /\ ui.loop = "quit"
    /\ LET outcome == Returned(ShowQuestionResult(ui.completed, ui.result, dlg))
       IN  /\ ui' = [ui EXCEPT !.pc = "returned", !.loop = "exited", !.ret = outcome]
           /\ container' = ShowDialog(container, outcome)
    /\ wpc' = "done"
    /\ UNCHANGED <<doc, apc, question, response, dlg, finished, late>>
    /\ UNCHANGED calls

Next ==
    \/ AdapterParse
    \/ AdapterValidate
    \/ AdapterStartThread
    \/ AdapterJoin
    \/ ShowQuestionOpen
    \/ TypeText
    \/ AttachImage
    \/ DropImageFile
    \/ DropFile
    \/ SelectOption
    \/ TypeCustom
    \/ AttachCustomImage
    \/ DropCustomImageFile
    \/ DropCustomFile
    \/ LoopInterrupted
    \/ Submit
    \/ CancelClick
    \/ EscPress
    \/ CloseWindow
    \/ ErrorTimer
    \/ WorkerFinish

Spec == Init /\ [][Next]_vars

-----------------------------------------------------------------------------
(* The dialog where one paste or drop gesture carries several file         *)
(* references                                                              *)

\* the gesture with references refs is pasted or dropped into the QA field
DropFileRefsOf(refs) ==
    /\ Awaiting
    /\ question.question_type = "qa"
    /\ Len(dlg.text_input.images) < MaxImages
    /\ Len(dlg.text_input.text) < MaxTextLen
    /\ Dispatch(Handled([dlg EXCEPT !.text_input = InsertFromUrls(@, refs)], <<>>))

DropFileRefs == \E refs \in RefLists : DropFileRefsOf(refs)

\* the gesture with references refs is pasted or dropped into the custom
\* field, which takes it when it is enabled; textChanged fires when the
\* document changed
DropCustomFileRefsOf(refs) ==
    /\ Awaiting
    /\ question.question_type = "choice"
    /\ dlg.custom_input.enabled
    /\ Len(dlg.custom_input.images) < MaxImages
    /\ Len(dlg.custom_input.text) < MaxTextLen
    /\ LET field == InsertFromUrls(dlg.custom_input, refs)
       IN  Dispatch(Handled(IF field = dlg.custom_input THEN dlg
                            ELSE OnCustomChanged(question,
                                                 [dlg EXCEPT !.custom_input = field]),
                            <<>>))

DropCustomFileRefs == \E refs \in RefLists : DropCustomFileRefsOf(refs)

NextGestures ==
    \/ AdapterParse
    \/ AdapterValidate
    \/ AdapterStartThread
    \/ AdapterJoin
    \/ ShowQuestionOpen
    \/ SelectOption
    \/ DropFileRefs
    \/ DropCustomFileRefs
    \/ Submit
    \/ CancelClick
    \/ WorkerFinish

SpecGestures == Init /\ [][NextGestures]_vars

-----------------------------------------------------------------------------
(* The call under the scheduling the code relies on: event_loop.exec_()    *)
(* returns once quit() was requested and show_dialog runs to its end, and  *)
(* dialog_thread.join() returns once the worker thread has ended.  Nothing *)
(* is assumed of the user.                                                 *)

SpecLive == Init /\ [][Next]_vars /\ WF_vars(WorkerFinish) /\ WF_vars(AdapterJoin)

-----------------------------------------------------------------------------
(* The dialog where the user's text may be the marker "ERROR:" itself *)

\* the user types the text "ERROR:" into the QA field
TypeErrorMarker ==
    /\ Awaiting
    /\ question.question_type = "qa"
    /\ Dispatch(Handled([dlg EXCEPT !.text_input.text = <<ERROR>>], <<>>))

NextMarkers == Next \/ TypeErrorMarker

SpecMarkers == Init /\ [][NextMarkers]_vars

-----------------------------------------------------------------------------
(* The parser alone, over every document of ParserDocs *)

InitParser ==
    /\ doc \in ParserDocs
    /\ apc = "called"
    /\ question = ParsedQuestion("", <<>>, <<>>, Absent)
    /\ container = NoContainer
    /\ response = NoResponse
    /\ wpc = "idle"
    /\ ui = NoCall
    /\ dlg = NoDialog
    /\ finished = <<>>
    /\ late = 0
    /\ calls = <<>>

NextParser == AdapterParse \/ AdapterValidate

SpecParser == InitParser /\ [][NextParser]_vars

-----------------------------------------------------------------------------
(* Repeated invocations of UIHandler.show_question.  Every invocation has   *)
(* its own result_container, its own ModernQuestionDialog and its own       *)
(* QEventLoop; calls holds one record per invocation, in the order the      *)
(* invocations were made.  One caller calls again when the call before has  *)
(* ended (test_ui_responsiveness); callers on different threads (two        *)
(* ask_user_question calls, each on its own worker thread) call at any      *)
(* time, and nothing in show_question makes the later one wait.             *)

\* the question the repeated calls ask, what the user types, what is pasted
CallQuestion == ParsedQuestion("qa", <<"T">>, <<"C">>, Absent)
CallTexts == {<<>>, <<"a">>}
CallImages == {PngImage}

\* one invocation: show_question's locals, its dialog, the payloads the
\* dialog's finished signal was emitted with, and the events dispatched after
\* its event loop was told to quit
Invocation(u, d, f, l) == [ui |-> u, dlg |-> d, finished |-> f, late |-> l]

\* the set-up raised, or the dialog's construction raised inside the try
FailedInvocation(outcome) ==
    Invocation([NoCall EXCEPT !.pc = "returned", !.ret = outcome], NoDialog, <<>>, 0)

\* dialog = ModernQuestionDialog(question); dialog.show(); event_loop.exec_()
ShownInvocation(q) ==
    Invocation([NoCall EXCEPT !.pc = "exec", !.loop = "running"],
               [NewDialog(q) EXCEPT !.visible = TRUE], <<>>, 0)

\* the invocation is inside show_question
Active(c) == c.ui.pc = "exec"

CallAwaiting(c) == c.ui.pc = "exec" /\ c.ui.loop = "running"

CallDispatching(c) ==
    \/ CallAwaiting(c)
    \/ c.ui.pc = "exec" /\ c.ui.loop = "quit" /\ c.late < MaxLateEvents

singleCallVars == <<doc, apc, question, container, response, wpc, ui, dlg, finished, late>>

InitCalls ==
    /\ doc = QaDoc
    /\ apc = "called"
    /\ question = ParsedQuestion("", <<>>, <<>>, Absent)
    /\ container = NoContainer
    /\ response = NoResponse
    /\ wpc = "idle"
    /\ ui = NoCall
    /\ dlg = NoDialog
    /\ finished = <<>>
    /\ late = 0
    /\ calls = <<>>

\* show_question is entered and runs up to event_loop.exec_()
EnterShowQuestion ==
    /\ \/ \E outcome \in {Raised("RuntimeError", "QApplication"),
                          Returned(Str(<<ERROR, "[EXCEPTION]">>))} :
             calls' = Append(calls, FailedInvocation(outcome))
       \/ calls' = Append(calls, ShownInvocation(CallQuestion))
    /\ UNCHANGED singleCallVars

\* the caller calls show_question, the calls it made before having ended
CallBegin ==
    /\ Len(calls) < MaxCalls
    /\ \A k \in 1..Len(calls) : ~Active(calls[k])
    /\ EnterShowQuestion

\* a caller on another thread calls show_question while a call is under way
CallBeginOverlapping ==
    /\ Len(calls) < MaxCalls
    /\ \E k \in 1..Len(calls) : Active(calls[k])
    /\ EnterShowQuestion

\* an event is dispatched to a handler of invocation k's dialog that leaves h
CallDispatch(k, h) ==
    /\ CallDispatching(calls[k])
    /\ calls' = [calls EXCEPT ![k] =
                    Invocation(OnFinished(@.ui, h.emits), h.dlg, @.finished \o h.emits,
                               IF @.ui.loop = "quit" THEN @.late + 1 ELSE @.late)]
    /\ UNCHANGED singleCallVars

CallTypeText ==
    \E k \in 1..Len(calls), t \in CallTexts :
        /\ CallAwaiting(calls[k])
        /\ CallDispatch(k, Handled([calls[k].dlg EXCEPT !.text_input.text = t], <<>>))

CallAttachImage ==
    \E k \in 1..Len(calls), img \in CallImages :
        /\ CallAwaiting(calls[k])
        /\ Len(calls[k].dlg.text_input.images) < MaxImages
        /\ CallDispatch(k, Handled([calls[k].dlg EXCEPT
                                       !.text_input = InsertImage(@, img)], <<>>))

CallSubmit ==
    \E k \in 1..Len(calls) : CallDispatch(k, SubmitAnswer(CallQuestion, calls[k].dlg))

CallCancelClick == \E k \in 1..Len(calls) : CallDispatch(k, CancelDialog(calls[k].dlg))

CallEscPress == \E k \in 1..Len(calls) : CallDispatch(k, EscapeKey(calls[k].dlg))

CallCloseWindow == \E k \in 1..Len(calls) : CallDispatch(k, CloseEvent(calls[k].dlg))

CallErrorTimer ==
    \E k \in 1..Len(calls) :
        /\ CallAwaiting(calls[k])
        /\ calls[k].dlg.error_visible
        /\ CallDispatch(k, Handled([calls[k].dlg EXCEPT !.error_visible = FALSE], <<>>))

\* what stays of an invocation that returned v: its locals are gone and its
\* dialog is deleted (deleteLater in the finally clause)
EndedInvocation(v) ==
    Invocation([NoCall EXCEPT !.pc = "returned", !.loop = "exited", !.ret = Returned(v)],
               NoDialog, <<>>, 0)

CallReturnsFirstOutcome ==
    \E k \in 1..Len(calls) :
        /\ calls[k].ui.pc = "exec"
        /\ calls[k].ui.loop = "quit"
        /\ calls' = [calls EXCEPT
                        ![k] = IF k = 1
                               THEN EndedInvocation(ShowQuestionResult(
                                        calls[k].ui.completed, calls[k].ui.result,
                                        calls[k].dlg))
                               ELSE calls[1]]
        /\ UNCHANGED singleCallVars

\* event_loop.exec_() returns and show_question returns what its container holds
CallReturn ==
    \E k \in 1..Len(calls) :
        /\ calls[k].ui.pc = "exec"
        /\ calls[k].ui.loop = "quit"
        /\ calls' = [calls EXCEPT
                        ![k] = EndedInvocation(ShowQuestionResult(
                                   calls[k].ui.completed, calls[k].ui.result,
                                   calls[k].dlg))]
        /\ UNCHANGED singleCallVars

\* one caller, one call after another
NextCalls ==
    \/ CallBegin
    \/ CallTypeText
    \/ CallAttachImage
    \/ CallSubmit
    \/ CallCancelClick
    \/ CallEscPress
    \/ CallCloseWindow
    \/ CallErrorTimer
    \/ CallReturn

SpecCalls == InitCalls /\ [][NextCalls]_vars

\* callers on several threads
NextOverlap ==
    \/ CallBegin
    \/ CallBeginOverlapping
    \/ CallTypeText
    \/ CallAttachImage
    \/ CallSubmit
    \/ CallCancelClick
    \/ CallEscPress
    \/ CallCloseWindow
    \/ CallErrorTimer
    \/ CallReturn

SpecOverlap == InitCalls /\ [][NextOverlap]_vars

-----------------------------------------------------------------------------
(* Properties *)

\* the call has returned after its worker thread ran the dialog to its end
DialogCallReturned == apc = "returned" /\ wpc = "done" /\ ui.loop = "exited"

\* C1: the caller-facing response category always matches how the dialog was
\* resolved.  When the dialog resolved once (one finished emission, no event
\* dispatched after it), an accepted answer (whatever its text starts with) is
\* returned as an 'answered' response carrying that text, and a cancel as a
\* 'cancelled' response; a failure of show_question is returned as an error.
C1_CategoryMatchesResolution ==
    /\ (DialogCallReturned /\ Len(finished) = 1 /\ late = 0) =>
          IF finished[1] = None
          THEN Category(response) = "cancelled"
          ELSE /\ Category(response) = "answered"
               /\ finished[1].tag = "str" => response.text = finished[1].val
    /\ (apc = "returned" /\ wpc = "done" /\ ui.loop = "none") =>
          Category(response) = "error"

C3_ResolvesExactlyOnce ==
    /\ Len(finished) <= 1
    /\ ui.loop = "exited" =>
          /\ Len(finished) = 1
          /\ finished[1] # None => ui.ret.value = finished[1]
          /\ finished[1] = None =>
                ui.ret.value.tag = "str" /\ StartsWith(ui.ret.value.val, CANCELLED)

\* C4 (states): while the worker runs the adapter is blocked in join() and the
\* container is as the adapter created it; when the adapter has returned a
\* response of a started worker, the worker has ended and has stored its outcome.
C4_Blocked ==
    /\ wpc = "running" =>
          apc = "joining" /\ response = NoResponse /\ container = FreshContainer
    /\ (apc = "returned" /\ container # NoContainer /\ response.kind # "unexpected_error")
          => wpc = "done" /\ container # FreshContainer

\* C4 (steps): the container is written by the adapter when it creates it and
\* then only by the worker, in the step that ends the worker; a response is
\* built from the container after the worker's end, in a step that leaves the
\* container alone.
C4_SingleWriter ==
    /\ container' # container =>
          \/ apc = "validated" /\ container = NoContainer /\ container' = FreshContainer
          \/ wpc = "running" /\ wpc' = "done" /\ container = FreshContainer
    /\ (response' # response /\ container # NoContainer) =>
          wpc = "done" /\ container' = container

\* C4: ask_user_question runs the dialog on a worker thread and blocks until
\* that thread has finished: it never reads the container or builds its
\* response before the worker has written the outcome; the worker is the only
\* writer of the container.
C4_AdapterWaitsForWorker == []C4_Blocked /\ [][C4_SingleWriter]_vars

\* C4 witness: a worker ran a dialog to an answer, and the adapter returned it
C4_Witness ==
    DialogCallReturned /\ container.answer # None /\ response.kind = "answer"

\* a QA dialog, or a choice dialog, waiting for input
QaAwaiting == Awaiting /\ question.question_type = "qa"
ChoiceAwaiting == Awaiting /\ question.question_type = "choice"

\* what a step leaves when a submit was rejected: no resolution, the error shown
RejectedStep ==
    /\ dlg'.result = None
    /\ ~dlg'.is_completed
    /\ dlg'.error_visible
    /\ dlg'.visible
    /\ finished' = finished
    /\ ui'.loop = "running"

\* what a step leaves when the dialog resolved to the answer v
AnsweredStep(v) ==
    /\ dlg'.result = v
    /\ dlg'.is_completed
    /\ finished' = <<v>>
    /\ ShowQuestionResult(ui'.completed, ui'.result, dlg') = v

\* C5 as stated, for one step: a submit with empty text and no image is
\* rejected, a submit with non-empty text (and no image) resolves the dialog
\* with exactly that text.
C5_NonEmptyTextStep ==
    (QaAwaiting /\ Submit /\ dlg.text_input.images = <<>>) =>
        IF dlg.text_input.text = <<>>
        THEN RejectedStep
        ELSE AnsweredStep(Str(dlg.text_input.text))

\* C5 (as stated): in a QA dialog awaiting input, a submit with empty text and
\* no image is rejected and the dialog stays unresolved; a submit with
\* non-empty text (and no image) resolves it with exactly that text.
C5_NonEmptyTextResolves == [][C5_NonEmptyTextStep]_vars

\* C5 amended, for one step
C5_NonBlankTextStep ==
    (QaAwaiting /\ Submit /\ dlg.text_input.images = <<>>) =>
        IF IsBlank(dlg.text_input.text)
        THEN RejectedStep
        ELSE AnsweredStep(Str(dlg.text_input.text))

\* C5 (amended): in a QA dialog awaiting input, a submit with no image and a
\* text that is empty or only whitespace is rejected and the dialog stays
\* unresolved; a submit with no image and a text that has a non-whitespace
\* character resolves it with exactly that text, surrounding whitespace kept.
C5_NonBlankTextResolves == [][C5_NonBlankTextStep]_vars

\* C5 witness: a submit was rejected, then a text with leading whitespace was
\* submitted and resolved the dialog with that text
C5_Witness ==
    /\ question.question_type = "qa"
    /\ dlg.error_visible
    /\ dlg.text_input.images = <<>>
    /\ dlg.result = Str(<<WS, "a">>)
    /\ finished = <<Str(<<WS, "a">>)>>

\* C6, for one step
C6_ChoiceSubmitStep ==
    (ChoiceAwaiting /\ Submit) =>
        /\ dlg.checked \in 0..CustomId(question)
        /\ dlg.checked < CustomId(question) =>
              AnsweredStep(Str(Options(question)[dlg.checked + 1].value))
        /\ dlg.checked = CustomId(question) =>
              /\ dlg'.is_completed =>
                    /\ dlg.custom_input.text # <<>> \/ dlg.custom_input.images # <<>>
                    /\ AnsweredStep(GetContentWithImages(dlg.custom_input))
              /\ (dlg.custom_input.text = <<>> /\ dlg.custom_input.images = <<>>) =>
                    RejectedStep

\* C6: in a choice dialog with at least one option, a submit while a
\* predefined option is active always resolves the dialog with that option's
\* value; a submit while the custom option is active resolves it only if the
\* custom text is non-empty or an image is attached, and is rejected when the
\* custom text is empty and no image is attached.
C6_ChoiceSubmit == [][C6_ChoiceSubmitStep]_vars

\* C6 witness: the custom option was active with an image attached, and the
\* submit resolved the dialog with the custom content
C6_Witness ==
    /\ question.question_type = "choice"
    /\ Len(Options(question)) >= 1
    /\ dlg.checked = CustomId(question)
    /\ dlg.custom_input.images # <<>>
    /\ dlg.result = GetContentWithImages(dlg.custom_input)
    /\ finished = <<dlg.result>>

\* C7: in a choice dialog awaiting input, typing non-blank custom text while a
\* predefined option is active makes the custom option the active one, and
\* typing further text while the custom option is active does not change
\* which option is active.
C7_TypingSelectsCustom ==
    ChoiceAwaiting =>
        IF dlg.checked # CustomId(question)
        THEN \A t \in Texts :
                ~IsBlank(t) =>
                    ENABLED (TypeCustomText(t) /\ dlg'.checked = CustomId(question))
        ELSE \A t \in Texts :
                ~ENABLED (TypeCustomText(t) /\ dlg'.checked # CustomId(question))

\* the value show_question would return after this step
ReturnedAfterStep == ShowQuestionResult(ui'.completed, ui'.result, dlg')

\* C8, for one step: each trigger on an unresolved dialog cancels it with its
\* own reason, and a reason is recorded only by the trigger it belongs to
C8_CancelStep ==
    /\ (Awaiting /\ CancelClick) =>
          /\ dlg'.cancel_reason = Str(BUTTON_REASON)
          /\ dlg'.result = None /\ dlg'.is_completed /\ finished' = <<None>>
          /\ ReturnedAfterStep = Str(<<CANCELLED>> \o BUTTON_REASON)
    /\ (Awaiting /\ EscPress) =>
          /\ dlg'.cancel_reason = Str(ESC_REASON)
          /\ dlg'.result = None /\ dlg'.is_completed /\ finished' = <<None>>
          /\ ReturnedAfterStep = Str(<<CANCELLED>> \o ESC_REASON)
    /\ (Awaiting /\ CloseWindow) =>
          /\ dlg'.cancel_reason = Str(CLOSE_REASON)
          /\ dlg'.result = None /\ dlg'.is_completed /\ finished' = <<None>>
          /\ ReturnedAfterStep = Str(<<CANCELLED>> \o CLOSE_REASON)
    /\ dlg'.cancel_reason # dlg.cancel_reason =>
          \/ dlg'.cancel_reason = Str(BUTTON_REASON) /\ CancelClick
          \/ dlg'.cancel_reason = Str(ESC_REASON) /\ EscPress
          \/ dlg'.cancel_reason = Str(CLOSE_REASON) /\ CloseWindow
          \/ dlg = NoDialog /\ dlg'.cancel_reason = None

\* C8: the cancel button, the ESC key and closing the window each resolve an
\* unresolved dialog to cancelled; the three triggers record three different
\* reasons, and each reason is recorded only when its own trigger fired.
C8_CancelReasons ==
    /\ BUTTON_REASON # ESC_REASON /\ BUTTON_REASON # CLOSE_REASON /\ ESC_REASON # CLOSE_REASON
    /\ [][C8_CancelStep]_vars

\* C8 witness: the cancel button was clicked on an unresolved dialog, and
\* show_question returned the cancellation with the button's reason
C8_Witness ==
    /\ ui.loop = "exited"
    /\ late = 0
    /\ dlg.cancel_reason = Str(BUTTON_REASON)
    /\ finished = <<None>>
    /\ ui.ret = Returned(Str(<<CANCELLED>> \o BUTTON_REASON))

\* the documents C9 names
NotAQuestionDocument(d) ==
    \/ ~d.wellFormed
    \/ d.root # "question"
    \/ d.type = Absent
    \/ d.type[1] \notin {"qa", "choice"}
    \/ d.title = Absent
    \/ d.content = Absent
    \/ d.type[1] = "choice" /\ (d.options = Absent \/ d.options[1] = <<>>)

\* parse_xml raised on doc: the adapter returned at once and no Question exists
ParseFailed ==
    /\ apc = "returned"
    /\ response.kind = "parse_rejected"
    /\ question = ParsedQuestion("", <<>>, <<>>, Absent)

\* C9: parse_xml fails with ValueError and returns no Question for every
\* document that is not well-formed, whose root is not 'question', whose type
\* is missing or neither 'qa' nor 'choice', that lacks the title or the content
\* element, or that (type 'choice') lacks the options container or has no
\* option entries.
C9_ParseRejects ==
    NotAQuestionDocument(doc) =>
        /\ ~ParseXml(doc).ok
        /\ ParseXml(doc).exc = "ValueError"
        /\ apc # "called" => ParseFailed

\* C9 witness: a choice document with an empty options container was parsed
\* and rejected
C9_Witness ==
    /\ doc.wellFormed /\ doc.root = "question" /\ doc.type = Some("choice")
    /\ doc.title # Absent /\ doc.content # Absent
    /\ doc.options = Some(<<>>)
    /\ ParseFailed

\* a choice document complete but for the option values: every field and every
\* option text has a non-whitespace character, and every option has a value
\* attribute
CompleteButValues(d) ==
    /\ d.wellFormed /\ d.root = "question" /\ d.type = Some("choice")
    /\ d.title # Absent /\ ~IsBlank(d.title[1])
    /\ d.content # Absent /\ ~IsBlank(d.content[1])
    /\ d.options # Absent /\ d.options[1] # <<>>
    /\ \A i \in 1..Len(d.options[1]) :
          d.options[1][i].value # Absent /\ ~IsBlank(d.options[1][i].text)

\* one option has an empty value attribute
HasEmptyValue(d) ==
    \E i \in 1..Len(d.options[1]) : d.options[1][i].value = Some(<<>>)

\* no option value is empty, one has only whitespace
HasBlankValue(d) ==
    /\ \A i \in 1..Len(d.options[1]) : d.options[1][i].value # Some(<<>>)
    /\ \E i \in 1..Len(d.options[1]) : IsBlank(d.options[1][i].value[1])

\* parse_xml returned a Question and validate_question returns, or has
\* returned, false for it
ParsedThenInvalid ==
    \/ apc = "parsed" /\ question = ParseXml(doc).value /\ ~ValidateQuestion(question)
    \/ apc = "returned" /\ response.kind = "validation_rejected"
                        /\ question = ParseXml(doc).value

QaDocument(d) ==
    /\ d.wellFormed /\ d.root = "question" /\ d.type = Some("qa")
    /\ d.title # Absent /\ d.content # Absent

\* parse_xml returned a Question and validate_question returns, or has
\* returned, true for it
ParsedThenValid ==
    /\ ParseXml(doc).ok
    /\ apc # "called" =>
          /\ question = ParseXml(doc).value
          /\ ValidateQuestion(question)
          /\ apc \in {"parsed", "validated"}
          /\ response = NoResponse

\* C11 (as stated): for every QA document whose title and content are
\* non-empty, parse_xml succeeds and validate_question returns true for the
\* parsed Question.
C11_NonEmptyQaValid ==
    (QaDocument(doc) /\ doc.title[1] # <<>> /\ doc.content[1] # <<>>) =>
        ParsedThenValid

\* C11 (amended): for every QA document whose title and content each have a
\* non-whitespace character, parse_xml succeeds and validate_question returns
\* true for the parsed Question; with a title or content of whitespace only,
\* parse_xml succeeds and validate_question returns false.
C11_NonBlankQaValid ==
    QaDocument(doc) =>
        IF ~IsBlank(doc.title[1]) /\ ~IsBlank(doc.content[1])
        THEN ParsedThenValid
        ELSE ParseXml(doc).ok /\ (apc # "called" => ParsedThenInvalid)

\* C11 witness: a QA document with title and content was parsed and validated
C11_Witness ==
    /\ QaDocument(doc)
    /\ ~IsBlank(doc.title[1]) /\ ~IsBlank(doc.content[1])
    /\ apc = "validated"
    /\ question = ParsedQuestion("qa", doc.title[1], doc.content[1], Absent)

\* the Questions C12 says validate_question returns false for
Incomplete(q) ==
    \/ Strip(q.title) = <<>>
    \/ Strip(q.content) = <<>>
    \/ /\ q.question_type = "choice"
       /\ \/ q.options = Absent
          \/ q.options[1] = <<>>
          \/ \E i \in 1..Len(q.options[1]) :
                \/ Strip(q.options[1][i].value) = <<>>
                \/ Strip(q.options[1][i].text) = <<>>

\* C12: validate_question returns false for a parsed Question exactly when the
\* title or the content is blank after trimming, or the kind is 'choice' and
\* the option list is absent or empty or some option's value or text is blank
\* after trimming; otherwise it returns true; it returns, it does not raise.
C12_ValidateExact ==
    /\ apc = "parsed" => (ValidateQuestion(question) <=> ~Incomplete(question))
    /\ apc = "validated" => ~Incomplete(question)
    /\ (apc = "returned" /\ response.kind = "validation_rejected") =>
          Incomplete(question)
    /\ response.kind # "raised"

\* C12 witness: validate_question returned false for a choice Question whose
\* title, content and option values are fine and whose option text is blank
C12_Witness ==
    /\ apc = "returned"
    /\ response.kind = "validation_rejected"
    /\ question.question_type = "choice"
    /\ ~IsBlank(question.title) /\ ~IsBlank(question.content)
    /\ \A i \in 1..Len(question.options[1]) : ~IsBlank(question.options[1][i].value)
    /\ \E i \in 1..Len(question.options[1]) : IsBlank(question.options[1][i].text)

\* the worker thread was started, or something of a dialog exists
DialogStarted ==
    \/ wpc # "idle"
    \/ ui # NoCall
    \/ dlg # NoDialog
    \/ container # NoContainer
    \/ finished # <<>>

C14_SelectedOptionLabel ==
    (/\ DialogCallReturned
     /\ question.question_type = "choice"
     /\ Len(finished) = 1 /\ late = 0
     /\ finished[1] # None
     /\ dlg.checked \in 0..(CustomId(question) - 1)
     /\ ~StartsWith(Options(question)[dlg.checked + 1].value, CANCELLED)
     /\ ~StartsWith(Options(question)[dlg.checked + 1].value, ERROR))
    => LET o == Options(question)[dlg.checked + 1]
       IN  /\ finished[1] = Str(o.value)
           /\ response.kind = "answer"
           /\ response.text = o.value
           /\ response.label = Some(o.text)

\* the call returned the encoding of a stored answer with images
RichAnswerReturned ==
    /\ apc = "returned"
    /\ wpc = "done"
    /\ container.answer # None
    /\ container.answer.tag = "dict"
    /\ Len(container.answer.images) >= 1

\* the image part of the encoding: one descriptor for each image, in the
\* images' order, with the image's mime type, the length of its base64 data
\* and the image record itself
ImagesEncoded ==
    /\ Len(response.images) = Len(container.answer.images)
    /\ \A k \in 1..Len(container.answer.images) :
          /\ response.images[k].index = k
          /\ response.images[k].mimeType = container.answer.images[k].mimeType
          /\ response.images[k].size = Len(container.answer.images[k].data)
          /\ response.images[k].payload = container.answer.images[k]

\* C15 (as stated): the encoding of an answer with text t and n >= 1 images has
\* the text portion iff t is non-empty, exactly n image descriptors in the
\* images' order, each with mime type, size and payload, and the custom-option
\* note iff the question is a choice question.
C15_TextIffNonEmpty ==
    RichAnswerReturned =>
        /\ response.kind = "rich_answer"
        /\ response.text # Absent <=> container.answer.text # <<>>
        /\ ImagesEncoded
        /\ response.custom <=> question.question_type = "choice"

\* C15 (amended): the encoding has the text portion iff t has a non-whitespace
\* character, and the portion is t without its leading and trailing
\* whitespace; the rest as stated.
C15_TextIffNonBlank ==
    RichAnswerReturned =>
        /\ response.kind = "rich_answer"
        /\ response.text # Absent <=> ~IsBlank(container.answer.text)
        /\ response.text # Absent => response.text = Some(Strip(container.answer.text))
        /\ ImagesEncoded
        /\ response.custom <=> question.question_type = "choice"

\* C15 witness: an answer with whitespace for text and two different images was
\* encoded for a QA question
C15_Witness ==
    /\ RichAnswerReturned
    /\ question.question_type = "qa"
    /\ container.answer.text = <<WS>>
    /\ container.answer.images = <<JpegImage, PngImage>>
    /\ response.kind = "rich_answer"

\* show_question returned the cancellation of a dialog whose last finished
\* emission carried None, with the reason the dialog recorded
ResolvedCancelled ==
    /\ DialogCallReturned
    /\ ui.completed
    /\ ui.result = None
    /\ dlg.cancel_reason # None
    /\ ui.ret = Returned(Str(<<CANCELLED>> \o dlg.cancel_reason.val))

\* show_question failed: it returned an "ERROR:" text made of its own detail,
\* or an exception left it
ResolvedFailed ==
    /\ apc = "returned"
    /\ wpc = "done"
    /\ ui.loop = "none"

C17_ShowQuestionCatchesAll ==
    wpc = "done" =>
        /\ ui.pc = "returned"
        /\ ui.ret.ok
        /\ ui.ret.value # None
        /\ ui.loop = "none" =>
              ui.ret.value.tag = "str" /\ StartsWith(ui.ret.value.val, ERROR)

\* show_question returned from a dialog that has neither an answer nor a
\* recorded cancel reason: the loop ended without finished having fired, or
\* finished carried None and cancel_reason is unset
ResolvedWithoutReason ==
    /\ DialogCallReturned
    /\ \/ ~ui.completed
       \/ ui.result = None /\ ~Truthy(dlg.cancel_reason)

\* the reasons of the three cancel triggers of the user
UserCancelReasons == {BUTTON_REASON, ESC_REASON, CLOSE_REASON}

C19_DropFileStep ==
    (Awaiting /\ (DropFile \/ DropCustomFile)) =>
        /\ dlg'.text_input = dlg.text_input
        /\ dlg'.custom_input = dlg.custom_input
        /\ dlg' = dlg
        /\ finished' = finished
        /\ ui' = ui

\* C19: dropping or pasting a file that is no image onto an input field of a
\* dialog awaiting input leaves the dialog and the field's content as they
\* were: the text is unchanged, no attachment is appended, the dialog keeps
\* awaiting input.
C19_NonImageFileIgnored == [][C19_DropFileStep]_vars

\* an attachment record: the MCP image type, a mime type, base64 data
AttachmentRecord(r) ==
    /\ r.type = "image"
    /\ r.mimeType \in {"image/png", "image/jpeg"}
    /\ Len(r.data) > 0

\* the field w' holds what w held and one more attachment record at the end of
\* its list, under the same text
AppendedTo(w, w2) ==
    /\ Len(w2.images) = Len(w.images) + 1
    /\ SubSeq(w2.images, 1, Len(w.images)) = w.images
    /\ AttachmentRecord(w2.images[Len(w2.images)])
    /\ w2.text = w.text

\* C20, for one step
C20_AttachStep ==
    /\ (Awaiting /\ AttachImage) => AppendedTo(dlg.text_input, dlg'.text_input)
    /\ (Awaiting /\ AttachCustomImage) => AppendedTo(dlg.custom_input, dlg'.custom_input)

\* C20: every accepted image paste or drop appends one attachment record at
\* the end of the field's image list: the records already there keep their
\* content and order, and the text already entered is unchanged.
C20_AttachAppendsOnly == [][C20_AttachStep]_vars

\* show_question returned from a dialog that resolved once, with no event
\* dispatched after the resolution
ResolvedOnce == ui.loop = "exited" /\ Len(finished) = 1 /\ late = 0

\* C22: show_question returns None when the user cancels the dialog (cancel
\* button, ESC or closing the window) and a value that is not None when the
\* user submits.
C22_NoneOnCancel ==
    ResolvedOnce =>
        /\ ui.ret.ok
        /\ finished[1] = None => ui.ret.value = None
        /\ finished[1] # None => ui.ret.value # None

\* a CHOICE document with at least one option entry, every entry with a
\* non-empty value attribute and a non-empty label text
ChoiceDocument(d) ==
    /\ d.wellFormed /\ d.root = "question" /\ d.type = Some("choice")
    /\ d.title # Absent /\ d.content # Absent
    /\ d.options # Absent /\ Len(d.options[1]) >= 1
    /\ \A i \in 1..Len(d.options[1]) :
          /\ d.options[1][i].value # Absent
          /\ d.options[1][i].value[1] # <<>>
          /\ d.options[1][i].text # <<>>

\* the Question q carries what the CHOICE document d holds
CarriesDocument(q, d) ==
    /\ q.question_type = "choice"
    /\ q.title = d.title[1]
    /\ q.content = d.content[1]
    /\ q.options # Absent
    /\ Len(q.options[1]) = Len(d.options[1])
    /\ \A i \in 1..Len(d.options[1]) :
          /\ q.options[1][i].value = d.options[1][i].value[1]
          /\ q.options[1][i].text = d.options[1][i].text

\* C24: parse_xml of a CHOICE document with n >= 1 option entries, each with a
\* non-empty value attribute and a non-empty label text, returns a Question of
\* kind 'choice' with exactly n options in document order that carry those
\* values and labels, together with the document's title and content.
C24_ChoiceParsed ==
    ChoiceDocument(doc) =>
        /\ ParseXml(doc).ok
        /\ CarriesDocument(ParseXml(doc).value, doc)
        /\ apc # "called" => CarriesDocument(question, doc)

\* C24 witness: a document with two different option entries was parsed
C24_Witness ==
    /\ ChoiceDocument(doc)
    /\ doc.options[1] = <<OptionEntry(Some(<<"a">>), <<WS>>), OptA>>
    /\ apc = "parsed"
    /\ question.options = Some(<<QuestionOption(<<"a">>, <<WS>>),
                                 QuestionOption(<<"a">>, <<"A">>)>>)

\* the field a submit reads free-form content from: the QA text field, or the
\* custom field while the custom option is active
FreeFormField(q, d) ==
    IF q.question_type = "qa" THEN d.text_input ELSE d.custom_input

SubmitsFreeForm ==
    /\ Awaiting
    /\ Submit
    /\ question.question_type = "choice" => dlg.checked = CustomId(question)
    /\ dlg'.is_completed

\* a {text, images} payload: the list is not empty and every entry is an
\* attachment record
StructuredPayload(v) ==
    /\ v.tag = "dict"
    /\ v.images # <<>>
    /\ \A i \in 1..Len(v.images) : AttachmentRecord(v.images[i])

\* C25, for one step: the payload of an accepted free-form submit
C25_PayloadStep ==
    SubmitsFreeForm =>
        LET w == FreeFormField(question, dlg)
            payload == finished'[Len(finished')]
        IN  /\ finished' # finished
            /\ payload = dlg'.result
            /\ payload.tag = "dict" <=> w.images # <<>>
            /\ w.images # <<>> =>
                  /\ StructuredPayload(payload)
                  /\ payload.text = w.text
                  /\ payload.images = w.images
            /\ w.images = <<>> => payload = Str(w.text)

\* C25, for every state: whatever the dialog emitted or show_question returned
\* is None, a str, or a payload with a non-empty list of attachment records
C25_PayloadShape ==
    /\ \A i \in 1..Len(finished) :
          finished[i].tag = "dict" => StructuredPayload(finished[i])
    /\ (ui.pc = "returned" /\ ui.ret.ok /\ ui.ret.value.tag = "dict") =>
          StructuredPayload(ui.ret.value)

\* C25: the answer a dialog returns for submitted free-form content (QA text
\* field or custom field of a choice dialog) is a {text, images} payload
\* exactly when the field's image list holds at least one image, and a plain
\* str otherwise; the images list of a returned payload is never empty and
\* every entry has type 'image', a base64 data string and a mimeType.
C25_StructuredIffImages == []C25_PayloadShape /\ [][C25_PayloadStep]_vars

\* C25 witness: a custom field with text and one image was submitted, and
\* show_question returned the payload
C25_Witness ==
    /\ question.question_type = "choice"
    /\ dlg.checked = CustomId(question)
    /\ dlg.custom_input.text = <<"a", OBJ>>
    /\ Len(dlg.custom_input.images) = 1
    /\ ui.loop = "exited"
    /\ finished = <<Dict(<<"a", OBJ>>, dlg.custom_input.images)>>
    /\ ui.ret = Returned(finished[1])

\* a submit on a dialog awaiting input that emits nothing: it was rejected
SubmitRejected == Awaiting /\ Submit /\ finished' = finished

\* a dialog but for its inline error display
HideError(d) == [d EXCEPT !.error_visible = FALSE]

\* two handler outcomes that differ at most in the inline error display
SameButError(h1, h2) == HideError(h1.dlg) = HideError(h2.dlg) /\ h1.emits = h2.emits

\* C26, for one step
C26_RejectedStep ==
    SubmitRejected =>
        /\ dlg' = [dlg EXCEPT !.error_visible = TRUE]
        /\ dlg'.result = None /\ ~dlg'.is_completed /\ dlg'.cancel_reason = None
        /\ dlg'.text_input = dlg.text_input
        /\ dlg'.custom_input = dlg.custom_input
        /\ dlg'.checked = dlg.checked
        /\ ui' = ui
        /\ UNCHANGED <<container, response, wpc, apc>>
        /\ SameButError(SubmitAnswer(question, dlg'), SubmitAnswer(question, dlg))
        /\ SameButError(CancelDialog(dlg'), CancelDialog(dlg))
        /\ SameButError(EscapeKey(dlg'), EscapeKey(dlg))
        /\ SameButError(CloseEvent(dlg'), CloseEvent(dlg))

\* C26: a rejected submit changes nothing except the transient inline error
\* display: result stays unset, is_completed stays false, cancel_reason stays
\* unset, finished is not emitted, and the entered text, the attached images
\* and the active selection are unchanged, so a following submit or cancel
\* behaves exactly as if the rejected submit had not happened.
C26_RejectedSubmitFrame == [][C26_RejectedStep]_vars

\* C26 witness: a submit of a whitespace-only custom text was rejected, and the
\* dialog still awaits input with that text and the custom option active
C26_Witness ==
    /\ ChoiceAwaiting
    /\ dlg.error_visible
    /\ dlg.checked = CustomId(question)
    /\ dlg.custom_input.text = <<WS>>
    /\ dlg.custom_input.images = <<>>
    /\ dlg.result = None /\ ~dlg.is_completed /\ dlg.cancel_reason = None
    /\ finished = <<>>

\* a choice dialog awaits input as show_question has just shown it
ChoiceFirstAwaiting ==
    /\ ChoiceAwaiting
    /\ dlg = [NewDialog(question) EXCEPT !.visible = TRUE]
    /\ finished = <<>>

\* C27, for every state: the dialog as first shown has the first predefined
\* option active, and the user can make each of the ids 0..n the active one
\* (n the custom option's id) and no other
C27_FirstOffer ==
    ChoiceFirstAwaiting =>
        LET n == Len(Options(question))
        IN  /\ n >= 1
            /\ dlg.checked = 0
            /\ CustomId(question) = n
            /\ \A id \in 0..n : ENABLED (SelectOption /\ dlg'.checked = id)
            /\ ~ENABLED (SelectOption /\ dlg'.checked \notin 0..n)

\* C27, for one step: a submit of the dialog as first shown
C27_FirstSubmitStep ==
    (ChoiceFirstAwaiting /\ Submit) => AnsweredStep(Str(Options(question)[1].value))

\* C27: when a choice dialog with n predefined options first awaits input it
\* offers exactly those n options in question order plus one custom option at
\* index n, with the first predefined option as the active selection; a submit
\* with no other interaction resolves the dialog to the first option's value.
C27_FirstOptionPreselected == []C27_FirstOffer /\ [][C27_FirstSubmitStep]_vars

\* C27 witness: the dialog of a question with two options was submitted with
\* the field and the selection as first shown, and show_question returned the
\* first option's value
C27_Witness ==
    /\ question.question_type = "choice"
    /\ Len(Options(question)) = 2
    /\ HideError(dlg) = [NewDialog(question) EXCEPT !.result = Str(Options(question)[1].value),
                                                    !.is_completed = TRUE]
    /\ ~dlg.error_visible
    /\ finished = <<Str(Options(question)[1].value)>>
    /\ ui.loop = "exited"
    /\ ui.ret = Returned(Str(Options(question)[1].value))

\* a step resolves the dialog: it completes it, records an answer or a cancel
\* reason, or emits finished
ResolvingStep ==
    \/ dlg'.is_completed # dlg.is_completed
    \/ dlg'.result # dlg.result
    \/ dlg'.cancel_reason # dlg.cancel_reason
    \/ finished' # finished
    \/ ui'.completed # ui.completed

\* the four actions of the user that resolve a dialog
UserResolution == Submit \/ CancelClick \/ EscPress \/ CloseWindow

\* C28, for one step
C28_ResolvingStep ==
    /\ ResolvingStep => UserResolution
    /\ (ErrorTimer \/ AdapterParse \/ AdapterValidate \/ AdapterStartThread \/ AdapterJoin)
          => ~ResolvingStep

\* C28: the dialog resolves only through a user action: the step that resolves
\* the dialog is a submit, a cancel-button click, an ESC press or a window
\* close; no timer and no action of the caller resolves or cancels it.
C28_UserResolvesOnly == [][C28_ResolvingStep]_vars

\* C28 witness: a QA dialog that held only whitespace, with no error on
\* display, was resolved by closing the window
C28_Witness ==
    /\ question.question_type = "qa"
    /\ dlg.text_input.text = <<WS>>
    /\ ~dlg.error_visible
    /\ dlg.is_completed
    /\ dlg.cancel_reason = Str(CLOSE_REASON)
    /\ finished = <<None>>
    /\ late = 0

\* a step in which the dialog and the event loop stay as they are
DialogUntouched == dlg' = dlg /\ finished' = finished /\ ui' = ui

\* the files C29 is about: oversized ones, and ones up to the limit that
\* exist and load
OversizedFiles == {f \in ImageFiles : f.size > MaxImageFileSize}
AcceptableFiles ==
    {f \in ImageFiles : f.size <= MaxImageFileSize /\ f.exists /\ f.loadable}

\* C29, for every state: on either input field, an oversized file can be
\* dropped and leaves the dialog as it was, and a file up to the limit that
\* exists and loads is attached
C29_SizeCheck ==
    /\ MaxImageFileSize = 10485760
    /\ (QaAwaiting /\ Len(dlg.text_input.images) < MaxImages) =>
          /\ \A f \in OversizedFiles : ENABLED (DropImageFileOf(f) /\ DialogUntouched)
          /\ \A f \in AcceptableFiles :
                ENABLED (DropImageFileOf(f) /\
                         dlg'.text_input.images = Append(dlg.text_input.images, f.image))
    /\ (ChoiceAwaiting /\ dlg.custom_input.enabled
                       /\ Len(dlg.custom_input.images) < MaxImages) =>
          /\ \A f \in OversizedFiles :
                ENABLED (DropCustomImageFileOf(f) /\ DialogUntouched)
          /\ \A f \in AcceptableFiles :
                ENABLED (DropCustomImageFileOf(f) /\
                         dlg'.custom_input.images =
                             Append(dlg.custom_input.images, f.image))

\* C29, for one step: the drop of an oversized file changes nothing
C29_OversizedStep ==
    \A f \in OversizedFiles :
        (DropImageFileOf(f) \/ DropCustomImageFileOf(f)) => DialogUntouched

\* C29: a reference to an image file larger than 10 MiB is skipped silently,
\* on either input field: no attachment is appended, nothing is raised and the
\* dialog keeps awaiting input as it was; a file of exactly 10 MiB, or less,
\* that exists and loads is not rejected by the size check and is attached.
C29_OversizedSkipped == []C29_SizeCheck /\ [][C29_OversizedStep]_vars

\* C29 witness: a QA dialog awaits input with text and one attachment, the
\* state a drop of a 10 MiB image file onto the typed text leaves
C29_Witness ==
    /\ QaAwaiting
    /\ dlg.text_input.text = <<"a", OBJ>>
    /\ dlg.text_input.images = <<JpegImage>>
    /\ InsertImageFromFile(Widget(<<"a">>, <<>>, TRUE),
                           ImageFile(TRUE, MaxImageFileSize, TRUE, JpegImage))
          = dlg.text_input
    /\ InsertImageFromFile(dlg.text_input,
                           ImageFile(TRUE, MaxImageFileSize + 1, TRUE, PngImage))
          = dlg.text_input

\* C30, for one step: the selection moves from the custom option to a
\* predefined one
C30_DeselectStep ==
    (ChoiceAwaiting /\ SelectOption /\ dlg.checked = CustomId(question)
                    /\ dlg'.checked # CustomId(question)) =>
        /\ dlg'.custom_input.text = <<>>
        /\ dlg'.custom_input.images = <<>>

\* C30, for one step: a submit of the custom option while the field is as the
\* last deselection left it is rejected
C30_ResubmitStep ==
    (ChoiceAwaiting /\ Submit /\ dlg.checked = CustomId(question)
                    /\ dlg.custom_input.text = <<>>) =>
        (dlg.custom_input.images = <<>> /\ RejectedStep)

\* C30: whenever the active selection of a choice dialog moves from the custom
\* option to a predefined option, the custom field is emptied of its text and
\* of its attached images; hence a later submit of the re-selected custom
\* option with nothing new entered is rejected and carries no earlier image.
C30_DeselectClearsCustom == [][C30_DeselectStep /\ C30_ResubmitStep]_vars

\* the invocations whose dialog is on the screen, unresolved
UnresolvedDialogs ==
    {k \in 1..Len(calls) :
        Active(calls[k]) /\ calls[k].dlg.visible /\ ~calls[k].dlg.is_completed}

\* C21: at any time at most one question dialog is active: when show_question
\* is invoked while the dialog of an earlier invocation is unresolved, no
\* second dialog is shown until the first has resolved.
C21_OneDialogAtATime == Cardinality(UnresolvedDialogs) <= 1

\* a dialog as a new invocation shows it: nothing entered, nothing attached,
\* nothing resolved
FreshDialog(d) ==
    /\ d.visible
    /\ d.result = None /\ ~d.is_completed /\ d.cancel_reason = None
    /\ d.text_input.text = <<>> /\ d.text_input.images = <<>>
    /\ d.custom_input.text = <<>> /\ d.custom_input.images = <<>>
    /\ ~d.error_visible

\* C23, for a step that begins an invocation: the invocations before it are
\* as they were, and the new one either failed in its set-up, with no dialog,
\* or shows a fresh dialog with an empty result container
C23_BeginStep ==
    Len(calls') > Len(calls) =>
        /\ Len(calls') = Len(calls) + 1
        /\ SubSeq(calls', 1, Len(calls)) = calls
        /\ \A k \in 1..Len(calls) : calls[k].ui.pc = "returned"
        /\ LET c == calls'[Len(calls')]
           IN  IF Active(c)
               THEN /\ FreshDialog(c.dlg)
                    /\ c.finished = <<>>
                    /\ c.ui.result = None /\ ~c.ui.completed
                    /\ c.ui.loop = "running"
               ELSE /\ c.dlg = NoDialog
                    /\ c.ui.pc = "returned"
                    /\ ~c.ui.ret.ok \/ c.ui.ret = Returned(Str(<<ERROR, "[EXCEPTION]">>))

\* C23, for every other step: only the invocation under way changes, and when
\* it returns after its dialog resolved once, it returns what its own dialog
\* was submitted with, or the cancellation with its own dialog's reason
C23_OwnOutcomeStep ==
    Len(calls') = Len(calls) =>
        \A k \in 1..Len(calls) :
            calls'[k] # calls[k] =>
                /\ k = Len(calls)
                /\ Active(calls[k])
                /\ (~Active(calls'[k]) /\ Len(calls[k].finished) = 1 /\ calls[k].late = 0) =>
                      LET c == calls[k]
                      IN  /\ c.finished[1] # None =>
                                /\ c.finished[1] = GetContentWithImages(c.dlg.text_input)
                                /\ calls'[k].ui.ret = Returned(c.finished[1])
                          /\ c.finished[1] = None =>
                                /\ c.dlg.cancel_reason.val \in UserCancelReasons
                                /\ calls'[k].ui.ret =
                                      Returned(Str(<<CANCELLED>> \o c.dlg.cancel_reason.val))

\* C23, for every state: every invocation but the last has ended, and every
\* invocation that ended after it showed its dialog has returned an outcome
C23_OutcomePerCall ==
    \A k \in 1..Len(calls) :
        /\ k < Len(calls) => calls[k].ui.pc = "returned"
        /\ (calls[k].ui.pc = "returned" /\ calls[k].ui.loop = "exited") =>
              calls[k].ui.ret.ok /\ calls[k].ui.ret.value # None

\* C23: show_question supports consecutive calls: of invocations made one after
\* another, each shows a fresh dialog (result unset, not completed, no cancel
\* reason, no attachments) and returns its own outcome, whatever the answers,
\* cancel reasons or attachments of the invocations before it; N calls give N
\* outcomes.
C23_ConsecutiveCalls ==
    []C23_OutcomePerCall /\ [][C23_BeginStep /\ C23_OwnOutcomeStep]_vars

\* C23 witness: the first invocation returned a text with an image, the second
\* the cancellation by the ESC key
C23_Witness ==
    /\ Len(calls) = 2
    /\ calls[1].ui.ret = Returned(Dict(<<"a", OBJ>>, <<PngImage>>))
    /\ calls[2].ui.pc = "returned"
    /\ calls[2].ui.ret = Returned(Str(<<CANCELLED>> \o ESC_REASON))

\* the slots of result_container the adapter acts on after the join
SlotsRecognised(c) ==
    {slot \in {"error", "cancelled", "answer"} :
        \/ slot = "error" /\ Truthy(c.error)
        \/ slot = "cancelled" /\ c.cancelled
        \/ slot = "answer" /\ c.answer # None}

\* C31: once the worker thread has finished, exactly one of result_container's
\* three slots (answer, error, cancelled) is populated in a way the adapter
\* recognises, and the adapter's response is never the program-error one.
C31_OneOutcomeSlot ==
    /\ wpc = "done" => Cardinality(SlotsRecognised(container)) = 1
    /\ response.kind # "program_error"

\* the payloads a step emitted finished with
Emitted == SubSeq(finished', Len(finished) + 1, Len(finished'))

\* dialog d of question q holds an answer that passed submit_answer's checks:
\* the value of the checked predefined option, or a field's content that is
\* not blank
HoldsValidAnswer(q, d) ==
    /\ d.result # None
    /\ IF q.question_type = "choice" /\ d.checked \in 0..(CustomId(q) - 1)
       THEN d.result = Str(Options(q)[d.checked + 1].value)
       ELSE HasContent(d.result)

\* C32, for one step: what the dialog holds when it emits finished
C32_EmitStep ==
    \A i \in 1..Len(Emitted) :
        /\ Emitted[i] = None <=> Truthy(dlg'.cancel_reason)
        /\ Emitted[i] # None <=>
              (dlg'.result = Emitted[i] /\ HoldsValidAnswer(question, dlg'))

\* C32, for every state: show_question's container never holds "completed, a
\* None result and a dialog without a cancel reason"
C32_NoUnexplainedNone ==
    (ui.completed /\ ui.result = None) => Truthy(dlg.cancel_reason)

\* C32: whenever the dialog emits finished, the payload is None if and only if
\* cancel_reason is set, and non-None if and only if the dialog's result holds
\* an answer that passed submit validation; show_question's "result is None
\* but no cancel reason" error branch is unreachable.
C32_PayloadMatchesReason == []C32_NoUnexplainedNone /\ [][C32_EmitStep]_vars

\* C32, for the emission that resolves a dialog awaiting input
C32_FirstEmitStep == Awaiting => C32_EmitStep

\* C32 restricted to the first emission of a dialog
C32_FirstPayloadMatchesReason == []C32_NoUnexplainedNone /\ [][C32_FirstEmitStep]_vars

\* C33, for the step that resolves a dialog awaiting input: the close() the
\* handler ends with leaves the handler's own reason, or the answer with no
\* reason, and finished was emitted once
C33_ResolveStep ==
    Awaiting =>
        /\ CancelClick =>
              /\ dlg'.cancel_reason = Str(BUTTON_REASON)
              /\ Emitted = <<None>>
        /\ EscPress =>
              /\ dlg'.cancel_reason = Str(ESC_REASON)
              /\ Emitted = <<None>>
        /\ (Submit /\ dlg'.is_completed) =>
              /\ dlg'.cancel_reason = None
              /\ dlg'.result # None
              /\ Emitted = <<dlg'.result>>
              /\ ui'.result = dlg'.result

\* C33, for a window-close event that reaches a resolved dialog
C33_CloseAfterStep ==
    (dlg.is_completed /\ CloseWindow) =>
        /\ dlg'.cancel_reason = dlg.cancel_reason
        /\ dlg'.result = dlg.result
        /\ finished' = finished
        /\ ui' = ui

\* C33: the window-close event that follows a cancel-button click, an ESC
\* press or a successful submit (the close() each of these handlers ends with,
\* or a close event dispatched afterwards) neither overwrites the recorded
\* cancel reason with the window-close reason, nor turns a submitted answer
\* into a cancellation, nor emits finished a second time.
C33_CloseKeepsOutcome == [][C33_ResolveStep /\ C33_CloseAfterStep]_vars

\* C33 witness: a QA dialog was cancelled with the button, the close event the
\* handler's close() delivers has hidden it, and the call returned the
\* button's reason after finished was emitted once
C33_Witness ==
    /\ question.question_type = "qa"
    /\ late = 0
    /\ finished = <<None>>
    /\ dlg.is_completed
    /\ ~dlg.visible
    /\ dlg.cancel_reason = Str(BUTTON_REASON)
    /\ response = [kind |-> "cancelled", reason |-> BUTTON_REASON]

\* a choice dialog has been constructed
ChoiceDialogExists == question.question_type = "choice" /\ ui.loop # "none"

\* the custom field is enabled exactly when the "other" radio is checked
CustomInStep(q, d) == d.custom_input.enabled <=> d.checked = CustomId(q)

\* C34, for every state
C34_InStep == ChoiceDialogExists => CustomInStep(question, dlg)

\* C34, for one step: the dialog starts with the first predefined option
\* checked and the field disabled, and the field's enabled state changes only
\* together with the selection
C34_SelectionStep ==
    /\ (ShowQuestionOpen /\ question.question_type = "choice" /\ dlg'.visible) =>
          dlg'.checked = 0 /\ ~dlg'.custom_input.enabled
    /\ (ChoiceAwaiting /\ dlg'.custom_input.enabled # dlg.custom_input.enabled) =>
          /\ dlg'.checked # dlg.checked
          /\ CustomInStep(question, dlg')

\* C34: in every reachable state of a CHOICE dialog the custom input field is
\* enabled if and only if the custom option is the active selection: it starts
\* disabled with the first predefined option selected, and every selection
\* change keeps the two in step.
C34_CustomEnabledIffSelected == []C34_InStep /\ [][C34_SelectionStep]_vars

\* C34 witness: the custom option was selected and given an image, then a
\* predefined option was selected again and the field is disabled
C34_Witness ==
    /\ ChoiceAwaiting
    /\ dlg.custom_input.images # <<>>
    /\ dlg.checked = 0
    /\ ~dlg.custom_input.enabled

\* C35, for every state: one of the n predefined options or the custom option
\* is checked, and a submit of a predefined selection resolves the dialog
C35_OneChecked ==
    ChoiceAwaiting =>
        /\ Cardinality({id \in 0..CustomId(question) : dlg.checked = id}) = 1
        /\ CustomId(question) >= 1
        /\ dlg.checked # CustomId(question) =>
              SubmitAnswer(question, dlg).emits # <<>>

\* C35, for one step: a submit is rejected only for the custom option's content
C35_RejectionStep ==
    (ChoiceAwaiting /\ Submit /\ ~dlg'.is_completed) =>
        /\ dlg.checked = CustomId(question)
        /\ ~HasContent(GetContentWithImages(dlg.custom_input))

\* C35: in every reachable state of a CHOICE dialog that is awaiting input,
\* exactly one of the n+1 options (n predefined plus the custom one) is the
\* active selection, so submit's "no option selected" rejection is unreachable.
C35_ExactlyOneSelected == []C35_OneChecked /\ [][C35_RejectionStep]_vars

\* C35 witness: a submit of the blank custom option was rejected, the user then
\* selected the last of two or more predefined options
C35_Witness ==
    /\ ChoiceAwaiting
    /\ dlg.error_visible
    /\ CustomId(question) >= 2
    /\ dlg.checked = CustomId(question) - 1

\* ask_user_question has returned a response
CallerResumed == apc = "returned" /\ response # NoResponse

\* C36, for every state: while the dialog awaits input, whatever was submitted,
\* selected or attached before, each of the resolving actions can be performed
C36_CanResolve ==
    Awaiting => ENABLED CancelClick /\ ENABLED EscPress /\ ENABLED CloseWindow

\* C36: once the user has performed a valid submit, a cancel-button click, an
\* ESC press or a window close (finished was emitted), ask_user_question
\* eventually returns with a response: the event loop stops, the worker
\* thread ends and the blocked caller resumes; no sequence of rejected
\* submits, selection changes or attachments before that action prevents it.
C36_ResolvedCallReturns ==
    /\ []C36_CanResolve
    /\ (finished # <<>>) ~> CallerResumed

\* C36 witness: a submit was rejected, the selection or the content changed,
\* then the dialog was resolved and the caller got a response
C36_Witness ==
    /\ CallerResumed
    /\ finished # <<>>
    /\ dlg.error_visible
    /\ wpc = "done"

\* the position of the first reference of refs that names an image file, 0 if
\* there is none
FirstNamedImage(refs) ==
    IF \E i \in 1..Len(refs) : refs[i].named_image
    THEN CHOOSE i \in 1..Len(refs) :
            /\ refs[i].named_image
            /\ \A j \in 1..(i - 1) : ~refs[j].named_image
    ELSE 0

\* insert_image_from_file attaches file f
Attachable(f) == f.exists /\ f.size <= MaxImageFileSize /\ f.loadable

\* what a gesture with references refs made of a field's attachments
GestureEffect(refs, before, after) ==
    LET i == FirstNamedImage(refs)
    IN  /\ Len(after) <= Len(before) + 1
        /\ (i # 0 /\ Attachable(refs[i].file)) =>
              after = Append(before, refs[i].file.image)
        /\ (i = 0 \/ ~Attachable(refs[i].file)) => after = before

\* C37, for one step
C37_GestureStep ==
    \A refs \in RefLists :
        /\ DropFileRefsOf(refs) =>
              GestureEffect(refs, dlg.text_input.images, dlg'.text_input.images)
        /\ DropCustomFileRefsOf(refs) =>
              GestureEffect(refs, dlg.custom_input.images, dlg'.custom_input.images)

\* the gestures whose first image reference names a file that is refused
RefusedGestures ==
    {refs \in RefLists :
        FirstNamedImage(refs) # 0 /\ ~Attachable(refs[FirstNamedImage(refs)].file)}

\* C37, for every state: a gesture whose first image reference is refused can
\* be made on either field and leaves the dialog as it was
C37_RefusedFirst ==
    /\ (QaAwaiting /\ Len(dlg.text_input.images) < MaxImages
                   /\ Len(dlg.text_input.text) < MaxTextLen) =>
          \A refs \in RefusedGestures : ENABLED (DropFileRefsOf(refs) /\ DialogUntouched)
    /\ (ChoiceAwaiting /\ dlg.custom_input.enabled
                       /\ Len(dlg.custom_input.images) < MaxImages
                       /\ Len(dlg.custom_input.text) < MaxTextLen) =>
          \A refs \in RefusedGestures :
              ENABLED (DropCustomFileRefsOf(refs) /\ DialogUntouched)

\* C37: a single paste or drop gesture appends at most one attachment: of
\* several local file references only the first that names an image file is
\* processed, and if that file is missing, oversized or unloadable nothing is
\* attached even when later references are valid images.
C37_OneAttachmentPerGesture == []C37_RefusedFirst /\ [][C37_GestureStep]_vars

\* C37 witness: a gesture whose first image reference was refused and whose
\* later one is a valid image can be dropped on a field that holds one image
\* from an earlier gesture, and leaves the field's attachments as they are
C37_Witness ==
    /\ QaAwaiting
    /\ Len(dlg.text_input.images) = 1
    /\ \E refs \in RefLists :
          /\ Len(refs) >= 2
          /\ refs[1].named_image /\ ~Attachable(refs[1].file)
          /\ refs[2].named_image /\ Attachable(refs[2].file)
          /\ ENABLED (DropFileRefsOf(refs) /\ dlg'.text_input.images = dlg.text_input.images)

\* the response the caller gets when handler outcome h resolves the dialog of
\* question q and nothing else is dispatched: on_finished, show_question's
\* return, show_dialog, and the adapter after the join
CallerResponse(q, h) ==
    Respond(q, ShowDialog(FreshContainer,
                          Returned(ShowQuestionResult(TRUE, h.emits[Len(h.emits)],
                                                      h.dlg))))

\* C38, for one step: submitting custom text that is the value of predefined
\* option i, with no image in the field, gives what submitting option i gives
C38_SameAnswerStep ==
    \A i \in 1..CustomId(question) :
        (/\ ChoiceAwaiting
         /\ Submit
         /\ dlg.checked = CustomId(question)
         /\ dlg.custom_input.images = <<>>
         /\ dlg.custom_input.text = Options(question)[i].value) =>
            LET other == SubmitAnswer(question, [dlg EXCEPT !.checked = i - 1])
            IN  /\ Emitted = other.emits
                /\ ui'.result = OnFinished(ui, other.emits).result
                /\ CallerResponse(question, Handled(dlg', Emitted)) =
                       CallerResponse(question, other)

\* C38, for every state: the response of a call whose dialog was resolved by
\* one submit of a text answer is the one CallerResponse gives, whichever
\* option was checked
C38_ResponseOfAnswer ==
    (/\ apc = "returned"
     /\ question.question_type = "choice"
     /\ late = 0
     /\ Len(finished) = 1
     /\ finished[1] # None) =>
        response = CallerResponse(question, Handled(dlg, finished))

\* C38: for a CHOICE question, a custom-option answer consisting of text only
\* (no image) that equals the value of a predefined option produces exactly
\* the same caller-facing response as selecting that predefined option.
C38_CustomTextLikeOption == []C38_ResponseOfAnswer /\ [][C38_SameAnswerStep]_vars

\* C38 witness: the custom option was submitted with the text of a predefined
\* option's value and no image, and the caller got the answer with that
\* option's label
C38_Witness ==
    /\ apc = "returned"
    /\ question.question_type = "choice"
    /\ late = 0
    /\ dlg.checked = CustomId(question)
    /\ dlg.custom_input.images = <<>>
    /\ \E i \in 1..CustomId(question) :
          /\ dlg.custom_input.text = Options(question)[i].value
          /\ dlg.result = Str(Options(question)[i].value)
    /\ response.kind = "answer"
    /\ response.label # Absent

====
